---------------------------- MODULE Spec2Model ----------------------------
(***************************************************************************)
(* A model of the smartdocs scanner: the override store, the classifier    *)
(* analyzeCodeContent, scanComponents with its hook second pass, the       *)
(* usage-example extractors and the page dependency analysis.              *)
(*                                                                         *)
(* Strings the code inspects character by character (symbol names and      *)
(* file paths) are sequences of one-character strings, so startsWith,      *)
(* endsWith, includes, toLowerCase and path.relative are computed as the   *)
(* code computes them.  The text of a source file is only ever probed via  *)
(* content.includes(<literal>) and a few regular expressions; it is        *)
(* represented by the set of probes that occur in it.                      *)
(***************************************************************************)
EXTENDS Integers, Sequences, FiniteSets, TLC

VARIABLES
    sidecar,    \* content of <projectRoot>/.smartdocs-overrides.json
    call,       \* arguments of the analyzeCodeContent call being made
    result,     \* what that call produced ("none" before it ran)
    cpc,        \* position of the classifier driver: "ready" | "done"
    pageText,   \* text of the page file analyzeComponentUsageInPages reads
    pageReadable, \* whether fs.readFile of the page file succeeds
    usedOut,    \* the page's usedComponents after the analysis
    upc,        \* position of the usage analysis: "ready" | "done"
    project,    \* the files on disk below the project root, in directory order
    userConfig, \* smartdocs.config: entryPaths and exclude
    files,      \* scanComponents: the files globby returned
    cursor,     \* scanComponents: index of the next file of the first pass
    allHookNames, \* scanComponents: the hook names found by findAllHookNames
    hookUsageMap, \* scanComponents: the usages found by scanAllHookUsages
    docs,       \* scanComponents: the records collected so far
    spc,        \* position of the build: "idle" | "registry" | "files" | "done" |
                \* "analyzed" | "aborted"
    dirty,      \* the sidecar was written since the current scan started
    componentsWithUsage, \* build: the records analyzeComponentUsageInPages returned
    timers,     \* watch mode: the pending setTimeout timers, as ticks left to run
    running,    \* watch mode: number of buildDocumentation calls in progress
    started,    \* watch mode: number of rebuilds the timers have started
    events,     \* watch mode: number of file events delivered
    sinceLast,  \* watch mode: ticks since the last file event, capped at the delay
    bursts,     \* watch mode: number of bursts of events so far
    awaiting,   \* watch mode: event handlers awaiting an unresolved promise
    comps,      \* page writer: the records handed to writeComponentPages
    outDir,     \* page writer: the files under the output directory
    wcursor,    \* page writer: position in the order of the writes
    wpc,        \* page writer: "idle", "ready", "writing" or "done"
    history,    \* override API: the update and remove calls made so far
    snapshot,   \* scan: the sidecar as it was when the scan in progress started
    inflight,   \* override API: the two concurrent updateComponentOverride calls
    mdxContent, \* markup description: the lines of the document
    mdxDescription, \* markup description: what extractMdxDescription returned
    mpc,        \* markup description: "idle", "ready" or "done"
    siteTemplate,  \* build: <outDir>/site exists
    tempSearch,    \* build: <outDir>/temp-content/search.json
    contentSearch, \* build: <outDir>/content/search.json
    scanned,       \* build: the scan result of the invocation in progress
    bpc            \* build: "idle", "ready", "generated" or "completed"

classVars == <<call, result, cpc>>

usageVars == <<pageText, pageReadable, usedOut, upc>>

scanVars ==
    <<project, userConfig, files, cursor, allHookNames, hookUsageMap, docs, spc, dirty,
      componentsWithUsage, snapshot>>

watchVars == <<timers, running, started, events, sinceLast, bursts, awaiting>>

writeVars == <<comps, outDir, wcursor, wpc>>

storeVars == <<history>>

raceVars == <<inflight>>

mdxVars == <<mdxContent, mdxDescription, mpc>>

buildVars == <<siteTemplate, tempSearch, contentSearch, scanned, bpc>>

vars ==
    <<sidecar, classVars, usageVars, scanVars, watchVars, writeVars, storeVars, raceVars,
      mdxVars, buildVars>>

-----------------------------------------------------------------------------
(* String primitives of String.prototype, over character sequences.        *)

UpperChars == <<"A","B","C","D","E","F","G","H","I","J","K","L","M",
                "N","O","P","Q","R","S","T","U","V","W","X","Y","Z">>

LowerChars == <<"a","b","c","d","e","f","g","h","i","j","k","l","m",
                "n","o","p","q","r","s","t","u","v","w","x","y","z">>

IsUpper(c) == \E i \in 1..Len(UpperChars) : UpperChars[i] = c

LowerChar(c) ==
    IF IsUpper(c)
    THEN LowerChars[CHOOSE i \in 1..Len(UpperChars) : UpperChars[i] = c]
    ELSE c

ToLowerCase(s) == [i \in 1..Len(s) |-> LowerChar(s[i])]

StartsWith(s, p) == Len(p) <= Len(s) /\ SubSeq(s, 1, Len(p)) = p

EndsWith(s, p) == Len(p) <= Len(s) /\ SubSeq(s, Len(s) - Len(p) + 1, Len(s)) = p

Includes(s, p) ==
    \E i \in 1..(Len(s) - Len(p) + 1) : SubSeq(s, i, i + Len(p) - 1) = p

\* index of the last "/" of a path, 0 when there is none
LastSlash(p) ==
    IF \E i \in 1..Len(p) : p[i] = "/"
    THEN CHOOSE i \in 1..Len(p) : p[i] = "/" /\ \A j \in (i+1)..Len(p) : p[j] # "/"
    ELSE 0

\* path.basename
Basename(p) == SubSeq(p, LastSlash(p) + 1, Len(p))

\* path.dirname of an absolute path
Dirname(p) == IF LastSlash(p) <= 1 THEN <<"/">> ELSE SubSeq(p, 1, LastSlash(p) - 1)

-----------------------------------------------------------------------------
(* The seven category values of ComponentDoc['type'].                      *)

Categories == {"component", "hook", "page", "api", "service", "util", "mdx"}

\* the value an async function rejects with when a TypeError is thrown in it
Threw == "TypeError"

-----------------------------------------------------------------------------
(* The override store.                                                     *)
(* A sidecar file is missing, holds text that is not JSON, or holds JSON.  *)
(* JSON.parse of the text yields null, an object without an `overrides`    *)
(* array ({}), or an OverridesConfig whose `overrides` is a list of        *)
(* ComponentOverride records.                                              *)

FileMissing == [state |-> "missing", value |-> "none",   overrides |-> <<>>]
FileInvalid == [state |-> "text",    value |-> "notjson", overrides |-> <<>>]
FileNull    == [state |-> "text",    value |-> "null",   overrides |-> <<>>]
FileEmptyObject == [state |-> "text", value |-> "object", overrides |-> <<>>]
FileConfig(list) == [state |-> "text", value |-> "config", overrides |-> list]

\* the empty OverridesConfig of the catch branch
EmptyConfig == [value |-> "config", overrides |-> <<>>]

\* loadOverrides: readFile + JSON.parse, any exception gives the empty config
LoadOverrides(file) ==
    IF file.state = "missing" \/ file.value = "notjson"
    THEN EmptyConfig
    ELSE [value |-> file.value, overrides |-> file.overrides]

\* saveOverrides: JSON.stringify(config) written to the sidecar
SaveOverrides(config) == FileConfig(config.overrides)

Override(fp, cn, orig, new) ==
    [filePath |-> fp, componentName |-> cn, originalType |-> orig, overrideType |-> new]

Matches(o, fp, cn) == o.filePath = fp /\ o.componentName = cn

\* Array.prototype.findIndex, 0 for -1
FindIndex(list, fp, cn) ==
    IF \E i \in 1..Len(list) : Matches(list[i], fp, cn)
    THEN CHOOSE i \in 1..Len(list) :
            Matches(list[i], fp, cn) /\ \A j \in 1..(i-1) : ~Matches(list[j], fp, cn)
    ELSE 0

\* findOverride: index of the first entry with this filePath and componentName
FindOverride(list, fp, cn) == FindIndex(list, fp, cn)

-----------------------------------------------------------------------------
(* File text.  content.includes(lit) is membership of the probe `lit`;     *)
(* a probe built from the component name, such as                          *)
(* content.includes(`element={<${componentName}`), is the pair             *)
(* <<"element={<$", componentName>>; a literal probe is <<lit, <<>> >>.     *)

Has(content, lit) == <<lit, <<>> >> \in content

HasN(content, tpl, n) == <<tpl, n>> \in content

HasAny(content, lits) == \E q \in lits : Has(content, q)

\* a text in which exactly these literal probes occur
Text(lits) == {<<q, <<>> >> : q \in lits}

\* hasPageSpecificPatterns
PagePatterns ==
    {"getStaticProps", "getServerSideProps", "getStaticPaths", "generateStaticParams",
     "generateMetadata", "useParams", "useSearchParams", "useNavigate", "useLocation",
     "useRouteLoaderData", "useRouter", "usePathname", "Head from", "metadata =",
     "export const metadata", "params:", "searchParams:", "query:", "slug:"}

HasPageSpecificPatterns(content) == HasAny(content, PagePatterns)

-----------------------------------------------------------------------------
(* Paths.  The project root (process.cwd(), where package.json is).        *)

ProjRoot == <<"/","p">>

\* path.relative(from, to) for a file below `from`
Relative(from, to) ==
    IF StartsWith(to, from \o <<"/">>)
    THEN SubSeq(to, Len(from) + 2, Len(to))
    ELSE <<".", ".", "/">> \o to

\* the file has one of the extensions ts, tsx, js, jsx
ScriptExts == {<<".","t","s">>, <<".","t","s","x">>, <<".","j","s">>, <<".","j","s","x">>}

HasScriptExt(p) == \E e \in ScriptExts : EndsWith(p, e)

\* isTs, isJs, isMdx
IsTs(f) == EndsWith(f, <<".","t","s">>) \/ EndsWith(f, <<".","t","s","x">>)

IsJs(f) == EndsWith(f, <<".","j","s">>) \/ EndsWith(f, <<".","j","s","x">>)

IsMdx(f) == EndsWith(f, <<".","m","d">>) \/ EndsWith(f, <<".","m","d","x">>)

\* a relative path lies in a directory called d:  **/d/**
InDir(rel, d) ==
    StartsWith(rel, d \o <<"/">>) \/ Includes(rel, <<"/">> \o d \o <<"/">>)

\* the basename is one of stem.{ts,tsx,js,jsx}
NamedScript(rel, stem) == \E e \in ScriptExts : Basename(rel) = stem \o e

\* the routingPatterns globs of isReferencedInRoutes, on a path relative to
\* the project root
RoutingNameParts ==
    {<<"r","o","u","t","e","r">>, <<"r","o","u","t","e">>, <<"r","o","u","t","e","s">>, <<"n","a","v">>, <<"n","a","v","i","g","a","t","i","o","n">>, <<"m","e","n","u">>,
     <<"s","i","d","e","b","a","r">>, <<"h","e","a","d","e","r">>, <<"l","a","y","o","u","t">>, <<"l","i","n","k">>, <<"b","r","e","a","d","c","r","u","m","b">>}

RoutingStems ==
    {<<"r","o","u","t","e","r">>, <<"r","o","u","t","e","s">>, <<"r","o","u","t","i","n","g">>, <<"A","p","p">>, <<"a","p","p">>, <<"i","n","d","e","x">>, <<"m","a","i","n">>}

IsRoutingFile(rel) ==
    \/ \E part \in RoutingNameParts : Includes(Basename(rel), part)
    \/ \E stem \in RoutingStems : NamedScript(rel, stem)
    \/ /\ InDir(rel, <<"a","p","p">>)
       /\ \E stem \in {<<"p","a","g","e">>, <<"l","a","y","o","u","t">>, <<"l","o","a","d","i","n","g">>, <<"e","r","r","o","r">>, <<"n","o","t","-","f","o","u","n","d">>} :
             NamedScript(rel, stem)
    \/ EndsWith(rel, <<"a","p","p","/","g","l","o","b","a","l","s",".","c","s","s">>)
    \/ InDir(rel, <<"p","a","g","e","s">>) /\ HasScriptExt(rel)
    \/ InDir(rel, <<"c","o","n","f","i","g">>) /\ HasScriptExt(rel)

-----------------------------------------------------------------------------
(* isReferencedInRoutes.  `disk` maps the path of every readable file of   *)
(* the project to its content.                                             *)

\* componentName.replace(/([A-Z])/g, sep + '$1').toLowerCase().substring(1)
RECURSIVE SepCase(_, _)
SepCase(s, sep) ==
    IF s = <<>> THEN <<>>
    ELSE (IF IsUpper(Head(s)) THEN <<sep, LowerChar(Head(s))>> ELSE <<Head(s)>>)
         \o SepCase(Tail(s), sep)

Substring1(s) == SubSeq(s, 2, Len(s))

ComponentNameVariants(n) ==
    {n, ToLowerCase(n), Substring1(SepCase(n, "-")), Substring1(SepCase(n, "_"))}

\* the checks of one route file for one variant (lines 258-534)
RouteCheck(c, filePath, n, v) ==
    LET has(q)  == Has(c, q)
        hasN(tpl) == HasN(c, tpl, n)
        hasV(tpl) == HasN(c, tpl, v)
        nl == ToLowerCase(n)
    IN
    \/ hasN("component={$}") \/ hasN("component: $") \/ hasN("element={<$")
         \/ hasN("element: <$") \/ hasN("Component: $")
    \/ hasV("to=\"/$\"") \/ hasV("to='/$'") \/ hasV("href=\"/$\"") \/ hasV("href='/$'")
         \/ hasV("path=\"/$\"") \/ hasV("path='/$'") \/ hasV("route=\"/$\"")
         \/ hasV("route='/$'")
    \/ hasN("element={ <$") \/ hasN("element={<$>")
    \/ hasN("component={ $ }")
    \/ /\ has("createBrowserRouter") \/ has("createHashRouter") \/ has("createMemoryRouter")
       /\ hasN("Component: $") \/ hasN("component: $") \/ hasN("element: <$")
            \/ hasN("loader: $") \/ hasN("action: $")
       /\ has("path:") \/ has("\"path\"") \/ has("'path'")
    \/ hasN("loader: $Loader") \/ hasN("action: $Action") \/ hasN("ErrorBoundary: $Error")
    \* the 200 characters after the first `{ path:` hold the name and a binding word
    \/ hasN("routeSection $")
    \/ /\ hasN("export default function $")
       /\ has("page.tsx") \/ has("page.ts") \/ has("page.jsx") \/ has("page.js")
    \/ /\ has("export const loader") \/ has("export const action")
       /\ hasN("export default function $")
    \/ /\ has("createRouter") /\ has("routes")
       /\ hasN("component: $") \/ (has("component: () => import") /\ hasN("$"))
    \/ has("RouterModule") /\ has("forRoot") /\ hasN("component: $")
    \* a quoted name and a line that names it beside path/component/routes words
    \/ (hasN("\"$\"") \/ hasN("'$'")) /\ hasN("routeLine $")
    \/ hasV("lazy(() => import('./$')") \/ hasN("lazy(() => import('./$')")
         \/ hasV("loadComponent: () => import('./$')")
         \/ hasN("loadComponent: () => import('./$')")
    \/ /\ has("<PrivateRoute") \/ has("<PublicRoute") \/ has("<ProtectedRoute")
            \/ has("<AuthRoute") \/ has("<GuardedRoute")
       /\ hasN("$")
    \/ /\ has("@tanstack/react-router") \/ has("createRouter") \/ has("createRoute")
       /\ hasN("component: $") \/ hasN("Component: $") \/ hasN("getComponent: () => $")
    \/ /\ \/ Includes(filePath, <<"/","p","a","g","e","s","/">>) \/ Includes(filePath, <<"\\","p","a","g","e","s","\\">>)
          \/ Includes(filePath, <<"/","r","o","u","t","e","s","/">>) \/ Includes(filePath, <<"\\","r","o","u","t","e","s","\\">>)
          \/ Includes(filePath, <<"/","a","p","p","/">>) \/ Includes(filePath, <<"\\","a","p","p","\\">>)
       /\ \/ EndsWith(filePath, <<"p","a","g","e",".","t","s","x">>) \/ EndsWith(filePath, <<"p","a","g","e",".","t","s">>)
          \/ EndsWith(filePath, <<"p","a","g","e",".","j","s","x">>) \/ EndsWith(filePath, <<"p","a","g","e",".","j","s">>)
          \/ EndsWith(filePath, <<"r","o","u","t","e",".","t","s","x">>) \/ EndsWith(filePath, <<"r","o","u","t","e",".","t","s">>)
    \/ has("@reach/router") /\ (hasN("component={$}") \/ hasN("<$ path="))
    \/ /\ has("RouterProvider") \/ has("createBrowserRouter")
       /\ \/ hasN("import('./$')") \/ hasV("import('./$')")
          \/ (has("() => import(") /\ hasN("$"))
          \/ hasN("handle: $Handle") \/ hasN("shouldRevalidate: $ShouldRevalidate")
    \/ /\ has("remix")
       /\ hasN("export { default } from \"./$\"") \/ hasN("export { $ as default }")
    \/ has("+page.svelte") \/ has("+layout.svelte")
    \/ EndsWith(filePath, <<".","a","s","t","r","o">>) /\ hasN("import $") /\ has("---")
    \/ has("future:") /\ has("v7_") /\ (hasN("Component: $") \/ hasN("element: <$"))
    \/ has("children:") /\ has("routes") /\ hasN("$")
    \/ /\ has("route.")
       /\ hasN("route.$") \/ hasN("route.component = $") \/ hasN("route.Component = $")
    \/ has("<Route") /\ hasN("$") /\ (has("RouteObject") \/ has("RouteConfig"))
    \/ /\ has(":id") \/ has("*") \/ has("[") \/ has("{")
       /\ hasN("$")
       /\ has("path") \/ has("route")
    \/ has("useOutletContext") /\ hasN("<$") /\ has("Outlet")
    \/ /\ hasN("$")
       /\ has("useSearchParams") \/ has("URLSearchParams") \/ has("useParams")
            \/ has("useLocation")
    \/ (Includes(nl, <<"e","r","r","o","r">>) /\ Includes(nl, <<"p","a","g","e">>))
         \/ (Includes(nl, <<"n","o","t","f","o","u","n","d">>) /\ Includes(nl, <<"p","a","g","e">>))
         \/ nl \in {<<"e","r","r","o","r","p","a","g","e">>, <<"n","o","t","f","o","u","n","d","p","a","g","e">>, <<"4","0","4","p","a","g","e">>, <<"e","r","r","o","r","4","0","4">>}
    \/ /\ hasV("'$'") \/ hasV("\"$\"")
       /\ hasN("$") \/ hasN("<$")
       /\ has("routes") \/ has("Routes") \/ has("navigation")

\* the files globby returns for the routing patterns below the project root
RouteFiles(disk) ==
    {f \in DOMAIN disk : StartsWith(f, ProjRoot \o <<"/">>)
                           /\ IsRoutingFile(Relative(ProjRoot, f))}

IsReferencedInRoutes(disk, filePath, n) ==
    \E routeFile \in RouteFiles(disk) :
        /\ routeFile # filePath
        /\ \E v \in ComponentNameVariants(n) : RouteCheck(disk[routeFile], filePath, n, v)

-----------------------------------------------------------------------------
(* analyzeCodeContent.                                                     *)

\* isHook testing for a capitalised prefix
IsHook_Capitalised(name) == StartsWith(name, <<"U","s","e">>)

\* isHook: name.startsWith('use')

IsHook(name) == StartsWith(name, <<"u","s","e">>)

\* the regular expression /^use[A-Z]/ of the hook naming convention
MatchesUseUpper(name) == Len(name) >= 4 /\ StartsWith(name, <<"u","s","e">>) /\ IsUpper(name[4])

ExclusionParts ==
    {<<"p","r","o","v","i","d","e","r">>, <<"c","o","n","t","e","x","t">>, <<"n","a","v","i","g","a","t","i","o","n">>, <<"n","a","v">>, <<"h","e","a","d","e","r">>, <<"f","o","o","t","e","r">>,
     <<"s","i","d","e","b","a","r">>, <<"m","e","n","u">>, <<"n","o","t","i","f","i","c","a","t","i","o","n">>, <<"t","o","a","s","t">>, <<"l","a","y","o","u","t">>, <<"w","r","a","p","p","e","r">>,
     <<"c","o","n","t","a","i","n","e","r">>, <<"b","u","t","t","o","n">>, <<"i","n","p","u","t">>, <<"m","o","d","a","l">>, <<"d","i","a","l","o","g">>, <<"p","o","p","u","p">>,
     <<"t","o","o","l","t","i","p">>, <<"d","r","o","p","d","o","w","n">>, <<"s","e","l","e","c","t">>, <<"c","h","e","c","k","b","o","x">>, <<"r","a","d","i","o">>, <<"s","l","i","d","e","r">>,
     <<"t","o","g","g","l","e">>, <<"l","o","a","d","i","n","g">>, <<"s","p","i","n","n","e","r">>, <<"s","k","e","l","e","t","o","n">>, <<"p","r","o","g","r","e","s","s">>, <<"b","a","d","g","e">>,
     <<"c","h","i","p">>, <<"t","a","g">>, <<"l","a","b","e","l">>, <<"t","a","b","l","e">>, <<"l","i","s","t">>, <<"c","a","r","d">>, <<"p","a","n","e","l">>,
     <<"a","c","c","o","r","d","i","o","n">>, <<"t","a","b">>, <<"c","a","r","o","u","s","e","l">>, <<"g","a","l","l","e","r","y">>, <<"e","r","r","o","r">>, <<"f","a","l","l","b","a","c","k">>,
     <<"g","u","a","r","d">>, <<"b","o","u","n","d","a","r","y">>, <<"p","o","r","t","a","l">>, <<"t","e","l","e","p","o","r","t">>}

ExclusionNames == {<<"r","o","u","t","e","r">>, <<"r","o","u","t","e","s">>, <<"r","o","u","t","i","n","g">>, <<"a","p","p">>}

\* the exclusion list left out
IsObviouslyNotPage_Never(nameLower) == nameLower \in {}

IsObviouslyNotPage(nameLower) ==
    \/ \E part \in ExclusionParts : Includes(nameLower, part)
    \/ nameLower \in ExclusionNames

HasDefaultExport(content) == Has(content, "export default") \/ Has(content, "export { default }")

\* Next.js App Router: /app/ and /page.{tsx,ts,jsx,js}
IsAppRouterPage(np) ==
    /\ Includes(np, <<"/","a","p","p","/">>)
    /\ \/ EndsWith(np, <<"/","p","a","g","e",".","t","s","x">>) \/ EndsWith(np, <<"/","p","a","g","e",".","t","s">>)
       \/ EndsWith(np, <<"/","p","a","g","e",".","j","s","x">>) \/ EndsWith(np, <<"/","p","a","g","e",".","j","s">>)

IsSpecialNextFile(np) ==
    \/ EndsWith(np, <<"/","_","a","p","p",".","t","s","x">>) \/ EndsWith(np, <<"/","_","a","p","p",".","t","s">>)
    \/ EndsWith(np, <<"/","_","a","p","p",".","j","s","x">>) \/ EndsWith(np, <<"/","_","a","p","p",".","j","s">>)
    \/ EndsWith(np, <<"/","_","d","o","c","u","m","e","n","t",".","t","s","x">>) \/ EndsWith(np, <<"/","_","d","o","c","u","m","e","n","t",".","t","s">>)
    \/ EndsWith(np, <<"/","_","d","o","c","u","m","e","n","t",".","j","s","x">>) \/ EndsWith(np, <<"/","_","d","o","c","u","m","e","n","t",".","j","s">>)
    \/ Includes(np, <<"/","a","p","i","/">>)

\* Next.js Pages Router: /\/pages\/.*\.(tsx?|jsx?)$/, no '/_', a default export
\* the Pages Router convention left out
IsNextPage_Never(np, content) == np \in {} /\ content = {}

IsNextPage(np, content) ==
    /\ Includes(np, <<"/","p","a","g","e","s","/">>)
    /\ ~IsSpecialNextFile(np)
    /\ HasScriptExt(np)
    /\ ~Includes(np, <<"/","_">>)
    /\ HasDefaultExport(content)

IsDynamicRoute(np, content) ==
    /\ Includes(np, <<"[">>) /\ Includes(np, <<"]">>)
    /\ Includes(np, <<"/","p","a","g","e","s","/">>) \/ Includes(np, <<"/","a","p","p","/">>)
    /\ Has(content, "export default") \/ Has(content, "getStaticProps")
         \/ Has(content, "getServerSideProps") \/ Has(content, "generateStaticParams")

IsGenericRoutePage(np) ==
    /\ Includes(np, <<"/","r","o","u","t","e","s","/">>) \/ Includes(np, <<"/","v","i","e","w","s","/">>)
    /\ \/ EndsWith(np, <<"p","a","g","e",".","t","s","x">>) \/ EndsWith(np, <<"p","a","g","e",".","t","s">>)
       \/ EndsWith(np, <<"p","a","g","e",".","j","s","x">>) \/ EndsWith(np, <<"p","a","g","e",".","j","s">>)
       \/ EndsWith(np, <<"r","o","u","t","e",".","t","s","x">>) \/ EndsWith(np, <<"r","o","u","t","e",".","t","s">>)
       \/ EndsWith(np, <<"i","n","d","e","x",".","t","s","x">>) \/ EndsWith(np, <<"i","n","d","e","x",".","t","s">>)

\* filePath.replace(/\\/g, '/')
NormalizePath(p) == [i \in 1..Len(p) |-> IF p[i] = "\\" THEN "/" ELSE p[i]]

IsPageName(nameLower, content) ==
    /\ EndsWith(nameLower, <<"p","a","g","e">>) \/ EndsWith(nameLower, <<"v","i","e","w">>)
         \/ EndsWith(nameLower, <<"s","c","r","e","e","n">>)
    /\ Has(content, "export default") \/ Has(content, "export const")
         \/ Has(content, "export function")
    /\ ~Includes(nameLower, <<"c","o","m","p","o","n","e","n","t">>) /\ ~Includes(nameLower, <<"w","i","d","g","e","t">>)
    /\ ~Includes(nameLower, <<"e","l","e","m","e","n","t">>) /\ ~Includes(nameLower, <<"i","t","e","m">>)

\* the optional `code` argument
Undefined == [given |-> FALSE, text |-> {}]

Code(lits) == [given |-> TRUE, text |-> Text(lits)]

\* lines 562-716: the heuristics, once the overrides have been consulted.
\* `code` is the text handed in, or Undefined.
Heuristics(disk, filePath, name, code) ==
    LET nameLower == ToLowerCase(name)
        np == NormalizePath(filePath)
        readable == filePath \in DOMAIN disk
        content == IF code.given THEN code.text
                   ELSE IF readable THEN disk[filePath] ELSE {}
    IN
    IF IsHook(name) THEN "hook"
    ELSE IF ~code.given /\ ~readable THEN "component"
    ELSE IF /\ StartsWith(name, <<"u","s","e">>)
            /\ Has(content, "export const") \/ Has(content, "export default")
            /\ HasAny(content, {"useState", "useEffect", "useContext", "useRef",
                                "useMemo", "useCallback"})
         THEN "hook"
    ELSE IF IsObviouslyNotPage(nameLower) THEN "component"
    ELSE IF IsAppRouterPage(np) THEN "page"
    ELSE IF IsNextPage(np, content) THEN "page"
    ELSE IF IsDynamicRoute(np, content) THEN "page"
    ELSE IF IsGenericRoutePage(np) THEN "page"
    ELSE IF HasPageSpecificPatterns(content) /\ HasDefaultExport(content)
            /\ ~IsObviouslyNotPage(nameLower) THEN "page"
    ELSE IF IsPageName(nameLower, content) THEN "page"
    ELSE IF IsReferencedInRoutes(disk, filePath, name) THEN "page"
    ELSE IF EndsWith(nameLower, <<"p","a","g","e">>) /\ Has(content, "export default") THEN "page"
    ELSE "component"

\* lines 562-716: the branch of the cascade that returns, named after its test
DecidingRule(disk, filePath, name, code) ==
    LET nameLower == ToLowerCase(name)
        np == NormalizePath(filePath)
        readable == filePath \in DOMAIN disk
        content == IF code.given THEN code.text
                   ELSE IF readable THEN disk[filePath] ELSE {}
    IN
    IF IsHook(name) THEN "isHook"
    ELSE IF ~code.given /\ ~readable THEN "readFailed"
    ELSE IF /\ StartsWith(name, <<"u","s","e">>)
            /\ Has(content, "export const") \/ Has(content, "export default")
            /\ HasAny(content, {"useState", "useEffect", "useContext", "useRef",
                                "useMemo", "useCallback"})
         THEN "hookBody"
    ELSE IF IsObviouslyNotPage(nameLower) THEN "isObviouslyNotPage"
    ELSE IF IsAppRouterPage(np) THEN "isAppRouterPage"
    ELSE IF IsNextPage(np, content) THEN "isNextPage"
    ELSE IF IsDynamicRoute(np, content) THEN "isDynamicRoute"
    ELSE IF IsGenericRoutePage(np) THEN "isGenericRoutePage"
    ELSE IF HasPageSpecificPatterns(content) /\ HasDefaultExport(content)
            /\ ~IsObviouslyNotPage(nameLower) THEN "hasPageSpecificPatterns"
    ELSE IF IsPageName(nameLower, content) THEN "isPageName"
    ELSE IF IsReferencedInRoutes(disk, filePath, name) THEN "isReferencedInRoutes"
    ELSE IF EndsWith(nameLower, <<"p","a","g","e">>) /\ Has(content, "export default") THEN "pageSuffix"
    ELSE "default"

\* analyzeCodeContent with the heuristics consulted before the overrides
AnalyzeCodeContent_HeuristicsFirst(side, disk, filePath, name, code, hasRoot) ==
    IF IsHook(name) \/ IsObviouslyNotPage(ToLowerCase(name))
    THEN Heuristics(disk, filePath, name, code)
    ELSE IF hasRoot /\ LoadOverrides(side).value = "config"
            /\ FindOverride(LoadOverrides(side).overrides, filePath, name) > 0
    THEN LoadOverrides(side).overrides[
             FindOverride(LoadOverrides(side).overrides, filePath, name)].overrideType
    ELSE Heuristics(disk, filePath, name, code)

\* analyzeCodeContent(filePath, name, code, projectRoot): `hasRoot` says whether
\* a project root was passed.  overridesConfig.overrides.find throws a TypeError
\* when the parsed sidecar is null or has no `overrides` array.
AnalyzeCodeContent(side, disk, filePath, name, code, hasRoot) ==
    LET cfg == LoadOverrides(side)
        idx == FindOverride(cfg.overrides, filePath, name)
    IN
    IF hasRoot /\ cfg.value # "config" THEN Threw
    ELSE IF hasRoot /\ idx > 0 THEN cfg.overrides[idx].overrideType
    ELSE Heuristics(disk, filePath, name, code)

-----------------------------------------------------------------------------
(* The classifier on its own: every call analyzeCodeContent can receive,   *)
(* over a bounded universe of symbols, file texts, projects and sidecars.  *)

MaxOverrides == 2

N_useAuth    == <<"u","s","e","A","u","t","h">>
N_useButton  == <<"u","s","e","B","u","t","t","o","n">>
N_Navigation == <<"N","a","v","i","g","a","t","i","o","n">>
N_Dashboard  == <<"D","a","s","h","b","o","a","r","d">>
N_Foo        == <<"F","o","o">>
N_WidgetPage == <<"W","i","d","g","e","t","P","a","g","e">>
N_HomePage   == <<"H","o","m","e","P","a","g","e">>
N_ApiService == <<"A","p","i","S","e","r","v","i","c","e">>
N_Button     == <<"B","u","t","t","o","n">>
N_ErrorPage  == <<"E","r","r","o","r","P","a","g","e">>

P_useAuth    == <<"/","p","/","s","r","c","/","h","o","o","k","s","/","u","s","e","A","u","t","h",".","t","s">>
P_Navigation == <<"/","p","/","s","r","c","/","c","o","m","p","o","n","e","n","t","s","/","N","a","v","i","g","a","t","i","o","n",".","t","s","x">>
P_Dashboard  == <<"/","p","/","s","r","c","/","p","a","g","e","s","/","D","a","s","h","b","o","a","r","d",".","t","s","x">>
P_Foo        == <<"/","p","/","s","r","c","/","F","o","o",".","t","s","x">>
P_WidgetPage == <<"/","p","/","s","r","c","/","w","i","d","g","e","t","s","/","W","i","d","g","e","t","P","a","g","e",".","t","s","x">>
P_Home       == <<"/","p","/","s","r","c","/","H","o","m","e",".","t","s","x">>
P_ApiService == <<"/","p","/","s","r","c","/","s","e","r","v","i","c","e","s","/","A","p","i","S","e","r","v","i","c","e",".","t","s">>
P_Button     == <<"/","p","/","s","r","c","/","c","o","m","p","o","n","e","n","t","s","/","B","u","t","t","o","n",".","t","s","x">>
P_ErrorPage  == <<"/","p","/","s","r","c","/","p","a","g","e","s","/","E","r","r","o","r","P","a","g","e",".","t","s","x">>
P_Router     == <<"/","p","/","s","r","c","/","r","o","u","t","e","r",".","t","s","x">>

Sym(fp, n) == [filePath |-> fp, name |-> n]

Symbols ==
    {Sym(P_useAuth, N_useAuth), Sym(P_Foo, N_useButton), Sym(P_Navigation, N_Navigation),
     Sym(P_Dashboard, N_Dashboard), Sym(P_Foo, N_Foo), Sym(P_WidgetPage, N_WidgetPage),
     Sym(P_Home, N_HomePage), Sym(P_ApiService, N_ApiService), Sym(P_Button, N_Button),
     Sym(P_ErrorPage, N_ErrorPage)}

Codes ==
    {Undefined, Code({"export function"}), Code({"export default"}),
     Code({"export default", "useParams"}), Code({"export const", "useState"}),
     Code({"export class"})}

\* src/router.tsx:  <Route path="/dashboard" element={<Dashboard/>} />
\*                  <Route path="/errorpage" element={<ErrorPage/>} />
RouterText ==
    {<<"element={<$", N_Dashboard>>, <<"$", N_Dashboard>>, <<"<$", N_Dashboard>>,
     <<"path=\"/$\"", ToLowerCase(N_Dashboard)>>,
     <<"element={<$", N_ErrorPage>>, <<"$", N_ErrorPage>>, <<"<$", N_ErrorPage>>,
     <<"path=\"/$\"", ToLowerCase(N_ErrorPage)>>} \cup Text({"<Route", "path", "{"})

SourceFiles == {s.filePath : s \in Symbols}

Disks ==
    { [f \in {} |-> {}],
      [f \in SourceFiles |-> Text({"export default"})],
      [f \in SourceFiles \cup {P_Router} |->
            IF f = P_Router THEN RouterText ELSE Text({"export default"})] }

OverrideKeys == {Sym(P_Foo, N_Foo), Sym(P_useAuth, N_useAuth), Sym(P_Navigation, N_Navigation)}

OverrideTypes == {"page", "hook", "util"}

OverrideEntries ==
    {Override(k.filePath, k.name, "component", t) : k \in OverrideKeys, t \in OverrideTypes}

\* lists of at most n entries, one per (filePath, componentName)
RECURSIVE OverrideLists(_)
OverrideLists(n) ==
    IF n = 0 THEN {<<>>}
    ELSE LET shorter == OverrideLists(n - 1)
         IN shorter \cup
            {Append(l, e) : l \in {x \in shorter : Len(x) = n - 1}, e \in OverrideEntries}

DistinctKeys(list) ==
    \A i, j \in 1..Len(list) :
        i # j => ~Matches(list[i], list[j].filePath, list[j].componentName)

Sidecars ==
    {FileMissing, FileInvalid, FileNull, FileEmptyObject}
    \cup {FileConfig(l) : l \in {x \in OverrideLists(MaxOverrides) : DistinctKeys(x)}}

Calls ==
    [sym : Symbols, code : Codes, disk : Disks, hasRoot : BOOLEAN]

NoCall == [sym |-> Sym(<<>>, <<>>), code |-> Undefined, disk |-> <<>>, hasRoot |-> FALSE]

ClassifyIdle == call = NoCall /\ result = "none" /\ cpc = "idle"

UsageIdle == pageText = <<>> /\ pageReadable = FALSE /\ usedOut = <<>> /\ upc = "idle"

NoConfig == [entryPaths |-> {}, exclude |-> {}]

ScanIdle ==
    /\ project = <<>> /\ userConfig = NoConfig /\ files = <<>> /\ cursor = 0
    /\ allHookNames = <<>> /\ hookUsageMap = <<>> /\ docs = <<>>
    /\ spc = "idle" /\ dirty = FALSE /\ componentsWithUsage = <<>>
    /\ snapshot = FileMissing

\* the delay of debouncedRebuild (500 ms), in ticks
DebounceTicks == 2

WatchIdle ==
    /\ timers = <<>> /\ running = 0 /\ started = 0 /\ events = 0
    /\ sinceLast = DebounceTicks /\ bursts = 0 /\ awaiting = 0

WriteIdle == comps = <<>> /\ outDir = {} /\ wcursor = 0 /\ wpc = "idle"

StoreIdle == history = <<>>

RaceIdle == inflight = <<>>

MdxIdle == mdxContent = <<>> /\ mdxDescription = <<>> /\ mpc = "idle"

BuildIdle ==
    /\ siteTemplate = FALSE /\ tempSearch = <<>> /\ contentSearch = <<>> /\ scanned = <<>>
    /\ bpc = "idle"

\* everything outside the classifier, the usage analysis, the scan, watch mode,
\* the page writer and the override calls
RestIdle == RaceIdle /\ MdxIdle /\ BuildIdle

InitClassify ==
    /\ sidecar \in Sidecars
    /\ call \in Calls
    /\ result = "none"
    /\ cpc = "ready"
    /\ UsageIdle
    /\ ScanIdle
    /\ WatchIdle
    /\ WriteIdle
    /\ StoreIdle
    /\ RestIdle

Classify ==
    /\ cpc = "ready"
    /\ result' = AnalyzeCodeContent(sidecar, call.disk, call.sym.filePath, call.sym.name,
                                    call.code, call.hasRoot)
    /\ cpc' = "done"
    /\ UNCHANGED <<sidecar, call, usageVars, scanVars, watchVars, writeVars, storeVars, raceVars, mdxVars, buildVars>>

NextClassify == Classify

SpecClassify == InitClassify /\ [][NextClassify]_vars

-----------------------------------------------------------------------------
(* Claims about the classifier (checked under SpecClassify).               *)

LoadedOverrides == LoadOverrides(sidecar).overrides

\* the override consultation of the finished call found no entry for the symbol:
\* either no project root was passed, or the loaded override list has no match
NoMatchingOverride ==
    \/ ~call.hasRoot
    \/ /\ LoadOverrides(sidecar).value = "config"
       /\ FindOverride(LoadedOverrides, call.sym.filePath, call.sym.name) = 0

\* C1 -- Override supremacy: when the override set loaded for the project root
\* holds an entry for the (filePath, name) given to analyzeCodeContent, the call
\* returns that entry's overrideType, whatever the heuristics would conclude.
C1_OverrideSupremacy ==
    (cpc = "done" /\ call.hasRoot) =>
        \A i \in 1..Len(LoadedOverrides) :
            Matches(LoadedOverrides[i], call.sym.filePath, call.sym.name)
                => result = LoadedOverrides[i].overrideType

\* a `use` name overridden to a category the heuristics would not give it
C1_Witness ==
    /\ cpc = "done" /\ call.hasRoot
    /\ IsHook(call.sym.name)
    /\ \E i \in 1..Len(LoadedOverrides) :
          /\ Matches(LoadedOverrides[i], call.sym.filePath, call.sym.name)
          /\ LoadedOverrides[i].overrideType = "page"
    /\ result = "page"

\* C3 -- Totality: for every symbol and for any content of the sidecar file the
\* classifier returns one of the seven category values.
C3_Totality == cpc = "done" => result \in Categories

\* C4 -- Hook naming: a symbol whose name matches /^use[A-Z]/ and for which the
\* override lookup finds no entry is classified hook, whatever its file path,
\* its file text and the route files are.
C4_HookNaming ==
    (cpc = "done" /\ MatchesUseUpper(call.sym.name) /\ NoMatchingOverride)
        => result = "hook"

\* a use[A-Z] name that also carries an exclusion-list substring, classified with
\* a non-empty override list in place and a route file on disk
C4_Witness ==
    /\ cpc = "done" /\ call.hasRoot
    /\ MatchesUseUpper(call.sym.name)
    /\ IsObviouslyNotPage(ToLowerCase(call.sym.name))
    /\ Len(LoadedOverrides) > 0 /\ NoMatchingOverride
    /\ P_Router \in DOMAIN call.disk
    /\ result = "hook"

-----------------------------------------------------------------------------
(* The page dependency analysis (usage-analysis.ts).                       *)
(* A page text is a sequence of occurrences; each kind of occurrence is    *)
(* what the three regular expressions of extractUsedComponents can see:    *)
(*   import    import { Name } from '...'                                  *)
(*   jsxOpen   <Name ...> or <Name/>                                       *)
(*   jsxClose  </Name>                                                     *)
(*   typeArg   a type argument, as in useState<Name>(...)                  *)
(*   hookDecl  const x = useName(...)                                      *)
(*   hookCall  useName(...) outside a declaration                          *)

Occ(k, n) == [kind |-> k, name |-> n]

\* jsxPattern /<([A-Z][a-zA-Z0-9]*(?:\.[A-Z][a-zA-Z0-9]*)*)/g : `<` followed by a
\* capitalised identifier, which a closing tag `</` is not
JsxPatternMatches(o) ==
    /\ o.kind \in {"jsxOpen", "typeArg"}
    /\ Len(o.name) >= 1 /\ IsUpper(o.name[1])

\* hookPattern: (const|let|var) ... = useName(
HookPatternMatches(o) == o.kind = "hookDecl" /\ MatchesUseUpper(o.name)

\* directHookPattern /\b(use[A-Z][a-zA-Z0-9]*)\s*\(/g : any call of a use-name,
\* the one of a declaration included
DirectHookPatternMatches(o) ==
    o.kind \in {"hookDecl", "hookCall"} /\ MatchesUseUpper(o.name)

\* the capture group of every match of a pattern, in text order
Captures(matches) == [i \in 1..Len(matches) |-> matches[i].name]

JsxMatches(text) == Captures(SelectSeq(text, JsxPatternMatches))

HookMatches(text) == Captures(SelectSeq(text, HookPatternMatches))

DirectHookMatches(text) == Captures(SelectSeq(text, DirectHookPatternMatches))

\* componentMap: displayName -> record; `known` is a set of [displayName, type]
InMap(known, n) == \E c \in known : c.displayName = n

TypeIn(known, n) == (CHOOSE c \in known : c.displayName = n).type

\* one forEach step: existing.count++ or push {name, type, count: 1}
Tally(used, known, n) ==
    IF ~InMap(known, n) THEN used
    ELSE IF \E i \in 1..Len(used) : used[i].name = n
    THEN LET i == CHOOSE k \in 1..Len(used) : used[k].name = n
         IN [used EXCEPT ![i].count = @ + 1]
    ELSE Append(used, [name |-> n, type |-> TypeIn(known, n), count |-> 1])

RECURSIVE TallyAll(_, _, _)
TallyAll(used, known, names) ==
    IF names = <<>> THEN used
    ELSE TallyAll(Tally(used, known, Head(names)), known, Tail(names))

\* extractUsedComponents seeding an entry of count 0 for every imported name and
\* keeping it
RECURSIVE SeedImports(_, _, _)
SeedImports(used, known, text) ==
    IF text = <<>> THEN used
    ELSE LET o == Head(text)
             seeded == IF o.kind = "import" /\ InMap(known, o.name)
                          /\ ~\E i \in 1..Len(used) : used[i].name = o.name
                       THEN Append(used, [name |-> o.name, type |-> TypeIn(known, o.name),
                                          count |-> 0])
                       ELSE used
         IN SeedImports(seeded, known, Tail(text))

ExtractUsedComponents_CountImports(text, known) ==
    TallyAll(TallyAll(TallyAll(SeedImports(<<>>, known, text), known,
                               JsxMatches(text)),
                      known, HookMatches(text)),
             known, DirectHookMatches(text))

\* extractUsedComponents (the firstUsage context string is left out)
ExtractUsedComponents(text, known) ==
    IF text = <<>> THEN <<>>
    ELSE LET jsx == TallyAll(<<>>, known, JsxMatches(text))
             hooks == TallyAll(jsx, known, HookMatches(text))
             direct == TallyAll(hooks, known, DirectHookMatches(text))
         IN SelectSeq(direct, LAMBDA u : u.count > 0)

-----------------------------------------------------------------------------
(* analyzeComponentUsageInPages on one page of a project whose documented  *)
(* symbols are Button, Input and useForm.                                  *)

MaxOccurrences == 4

N_Input   == <<"I","n","p","u","t">>
N_useForm == <<"u","s","e","F","o","r","m">>
N_Card    == <<"C","a","r","d">>

KnownDocs ==
    {[displayName |-> N_Button, type |-> "component"],
     [displayName |-> N_Input, type |-> "component"],
     [displayName |-> N_useForm, type |-> "hook"]}

Occurrences ==
    {Occ("import", N_Button), Occ("import", N_useForm),
     Occ("jsxOpen", N_Button), Occ("jsxOpen", N_Input), Occ("jsxOpen", N_Card),
     Occ("jsxClose", N_Button), Occ("typeArg", N_Input),
     Occ("hookDecl", N_useForm), Occ("hookCall", N_useForm)}

RECURSIVE PageTexts(_)
PageTexts(n) ==
    IF n = 0 THEN {<<>>}
    ELSE LET shorter == PageTexts(n - 1)
         IN shorter \cup
            {Append(s, o) : s \in {x \in shorter : Len(x) = n - 1}, o \in Occurrences}

InitUsage ==
    /\ pageText \in PageTexts(MaxOccurrences)
    /\ pageReadable \in BOOLEAN
    /\ usedOut = <<>>
    /\ upc = "ready"
    /\ sidecar = FileMissing
    /\ ClassifyIdle
    /\ ScanIdle
    /\ WatchIdle
    /\ WriteIdle
    /\ StoreIdle
    /\ RestIdle

\* one iteration of the page loop: the page keeps no usedComponents when
\* reading its file throws
AnalyzePage ==
    /\ upc = "ready"
    /\ usedOut' = IF pageReadable THEN ExtractUsedComponents(pageText, KnownDocs) ELSE <<>>
    /\ upc' = "done"
    /\ UNCHANGED <<sidecar, classVars, scanVars, watchVars, writeVars, storeVars, raceVars, mdxVars, buildVars, pageText, pageReadable>>

NextUsage == AnalyzePage

SpecUsage == InitUsage /\ [][NextUsage]_vars

\* number of occurrences of the text satisfying a predicate
CountOcc(text, n, kinds) ==
    Len(SelectSeq(text, LAMBDA o : o.name = n /\ o.kind \in kinds))

CountOf(used, n) ==
    IF \E i \in 1..Len(used) : used[i].name = n
    THEN (CHOOSE u \in {used[i] : i \in 1..Len(used)} : u.name = n).count
    ELSE 0

\* C5 -- the count recorded for each known name is the number of JSX opening
\* tags with that name plus the number of calls of that hook name in the page.
C5_ExactTally ==
    (upc = "done" /\ pageReadable) =>
        \A c \in KnownDocs :
            CountOf(usedOut, c.displayName) =
                CountOcc(pageText, c.displayName, {"jsxOpen", "hookDecl", "hookCall"})

\* C6 -- every entry of a page's dependency list has count >= 1, and a known
\* symbol that the page never uses as a tag, type argument or call (an import
\* alone) is not listed.
C6_CountAtLeastOne ==
    upc = "done" =>
        /\ \A i \in 1..Len(usedOut) : usedOut[i].count >= 1
        /\ \A c \in KnownDocs :
              CountOcc(pageText, c.displayName,
                       {"jsxOpen", "typeArg", "hookDecl", "hookCall"}) = 0
                  => CountOf(usedOut, c.displayName) = 0

\* a page that imports Button and useForm, uses Input and never uses Button
C6_Witness ==
    /\ upc = "done" /\ pageReadable
    /\ \E i \in 1..Len(pageText) : pageText[i] = Occ("import", N_Button)
    /\ \E i \in 1..Len(pageText) : pageText[i] = Occ("jsxOpen", N_Input)
    /\ CountOf(usedOut, N_Input) = 1
    /\ CountOf(usedOut, N_Button) = 0
    /\ Len(usedOut) = 1

-----------------------------------------------------------------------------
(* File enumeration.  globby(patterns, {absolute: true, ignore: [...]})    *)
(* matches paths relative to process.cwd(), the project root.              *)

\* the index of the first "/" of p, 0 if there is none
FirstSlash(p) ==
    IF \E i \in 1..Len(p) : p[i] = "/"
    THEN CHOOSE i \in 1..Len(p) : p[i] = "/" /\ \A j \in 1..(i - 1) : p[j] # "/"
    ELSE 0

\* the directory names on the way to the file of a relative path
RECURSIVE DirSegments(_)
DirSegments(rel) ==
    IF FirstSlash(rel) = 0 THEN {}
    ELSE {SubSeq(rel, 1, FirstSlash(rel) - 1)}
         \cup DirSegments(SubSeq(rel, FirstSlash(rel) + 1, Len(rel)))

\* name.* : the basename is `name.` followed by anything
NamedAny(rel, name) == StartsWith(Basename(rel), name \o <<".">>)

\* *mid{exts} : the basename ends with mid followed by one of the extensions
EndsWithAny(rel, mid, exts) == \E e \in exts : EndsWith(Basename(rel), mid \o e)

IgnoredDirs ==
    {<<".","s","m","a","r","t","d","o","c","s">>, <<"s","m","a","r","t","d","o","c","s">>, <<"s","m","a","r","t","d","o","c","s","-","d","i","s","t">>, <<"n","o","d","e","_","m","o","d","u","l","e","s">>, <<".","p","n","p","m">>,
     <<".","y","a","r","n">>, <<"d","i","s","t">>, <<"b","u","i","l","d">>, <<"o","u","t">>, <<"c","o","n","f","i","g">>, <<"_","_","t","e","s","t","s","_","_">>, <<".","g","i","t">>,
     <<".","n","e","x","t">>, <<".","n","u","x","t">>, <<"c","o","v","e","r","a","g","e">>, <<"t","e","m","p">>, <<"t","m","p">>}

IgnoredConfigStems ==
    {<<"s","m","a","r","t","d","o","c","s",".","c","o","n","f","i","g">>, <<"w","e","b","p","a","c","k",".","c","o","n","f","i","g">>, <<"v","i","t","e",".","c","o","n","f","i","g">>, <<"r","o","l","l","u","p",".","c","o","n","f","i","g">>,
     <<"b","a","b","e","l",".","c","o","n","f","i","g">>, <<"j","e","s","t",".","c","o","n","f","i","g">>, <<"e","s","l","i","n","t",".","c","o","n","f","i","g">>, <<".","e","s","l","i","n","t","r","c">>,
     <<"p","r","e","t","t","i","e","r",".","c","o","n","f","i","g">>, <<"t","a","i","l","w","i","n","d",".","c","o","n","f","i","g">>, <<"p","o","s","t","c","s","s",".","c","o","n","f","i","g">>}

\* the ignore list of scanComponents
BuiltInIgnore(rel) ==
    \/ DirSegments(rel) \cap IgnoredDirs # {}
    \/ \E d \in DirSegments(rel) : StartsWith(d, <<"s","m","a","r","t","d","o","c","s","-">>)
    \/ \E stem \in IgnoredConfigStems : NamedAny(rel, stem)
    \/ EndsWithAny(rel, <<".","c","o","n","f","i","g",".">>, {<<"j","s">>, <<"t","s">>, <<"m","j","s">>, <<"c","j","s">>})
    \/ EndsWithAny(rel, <<".","c","o","n","f",".">>, {<<"j","s">>, <<"t","s">>})
    \/ StartsWith(Basename(rel), <<"t","e","s","t","-">>) /\ EndsWithAny(rel, <<".">>, {<<"j","s">>, <<"t","s">>})
    \/ EndsWithAny(rel, <<".","t","e","s","t",".">>, {<<"j","s">>, <<"t","s">>, <<"t","s","x">>, <<"j","s","x">>})
    \/ EndsWithAny(rel, <<".","s","p","e","c",".">>, {<<"j","s">>, <<"t","s">>, <<"t","s","x">>, <<"j","s","x">>})
    \/ StartsWith(Basename(rel), <<"s","e","t","u","p">>) /\ EndsWithAny(rel, <<".">>, {<<"j","s">>, <<"t","s">>})
    \/ EndsWith(Basename(rel), <<".","d",".","t","s">>)

\* the glob patterns of the configuration, matched against a relative path
GlobMatches(pattern, rel) ==
    CASE pattern = "src/**/*.{ts,tsx,js,jsx}" ->
            StartsWith(rel, <<"s","r","c","/">>) /\ HasScriptExt(rel)
      [] pattern = "docs/**/*.{md,mdx}" ->
            StartsWith(rel, <<"d","o","c","s","/">>) /\ IsMdx(rel)
      [] pattern = "**/__tests__/**" ->
            <<"_","_","t","e","s","t","s","_","_">> \in DirSegments(rel)
      [] pattern = "**/*.stories.*" ->
            Includes(Basename(rel), <<".","s","t","o","r","i","e","s",".">>) /\ ~StartsWith(Basename(rel), <<".">>)
      [] pattern = "node_modules/**" ->
            StartsWith(rel, <<"n","o","d","e","_","m","o","d","u","l","e","s","/">>)
      [] OTHER -> FALSE

\* defaultConfig.exclude
DefaultExclude == {"**/__tests__/**", "**/*.stories.*", "node_modules/**"}

\* the files a list of patterns selects, in directory order; config.exclude
\* is not among the options scanComponents gives globby
Globby(proj, patterns) ==
    LET matched == SelectSeq(proj, LAMBDA f :
                       /\ StartsWith(f.path, ProjRoot \o <<"/">>)
                       /\ \E pat \in patterns : GlobMatches(pat, Relative(ProjRoot, f.path))
                       /\ ~BuiltInIgnore(Relative(ProjRoot, f.path)))
    IN [i \in 1..Len(matched) |-> matched[i].path]

-----------------------------------------------------------------------------
(* Files on disk.  A file record says what each reader of the file gets:   *)
(*   readable   fs.readFile succeeds                                       *)
(*   docgen     what the three react-docgen-typescript attempts return     *)
(*   jsx        what parseJsx (react-docgen) returns                       *)
(*   babelOk    babelParser.parse succeeds                                 *)
(*   text       the probes that occur in the content                       *)
(*   jsxSites   the JSX elements of the file, in traversal order           *)
(*   hookSites  the declarations `const x = useName(...)` of the file      *)
(*   defines    the hook names the file declares with function or const    *)

Parsed(names) == [ok |-> TRUE, names |-> names]

ParseThrows == [ok |-> FALSE, names |-> <<>>]

JsxSite(n, code, nested) == [name |-> n, code |-> code, nested |-> nested]

HookSite(n, code) == [name |-> n, code |-> code]

FileAt(proj, path) == proj[CHOOSE i \in 1..Len(proj) : proj[i].path = path]

\* the readable files, as isReferencedInRoutes sees them
DiskOf(proj) ==
    [p \in {proj[i].path : i \in {k \in 1..Len(proj) : proj[k].readable}} |->
        FileAt(proj, p).text]

UpperChar(c) ==
    IF \E i \in 1..26 : LowerChars[i] = c
    THEN UpperChars[CHOOSE i \in 1..26 : LowerChars[i] = c]
    ELSE c

\* inferNameFromPath: the basename without /\.(jsx?|tsx?|mdx?)$/i, capitalised
NameExts == {<<".","j","s","x">>, <<".","t","s","x">>, <<".","m","d","x">>, <<".","j","s">>, <<".","t","s">>, <<".","m","d">>}

InferNameFromPath(p) ==
    LET b == Basename(p)
        exts == {e \in NameExts : EndsWith(ToLowerCase(b), e)}
        cut == IF exts = {} THEN 0
               ELSE Len(CHOOSE e \in exts : \A o \in exts : Len(o) <= Len(e))
        base == SubSeq(b, 1, Len(b) - cut)
    IN IF base = <<>> THEN base ELSE <<UpperChar(base[1])>> \o Tail(base)

\* the parser cascade of the TypeScript branch: the next attempt is made only
\* when the one before it throws
DocgenParse(f) ==
    IF f.docgen[1].ok THEN f.docgen[1]
    ELSE IF f.docgen[2].ok THEN f.docgen[2]
    ELSE IF f.docgen[3].ok THEN f.docgen[3]
    ELSE ParseThrows

\* [...new Set(examples)]
RECURSIVE Unique(_)
Unique(s) ==
    IF s = <<>> THEN <<>>
    ELSE LET front == Unique(SubSeq(s, 1, Len(s) - 1))
             last == s[Len(s)]
         IN IF \E i \in 1..Len(front) : front[i] = last THEN front ELSE Append(front, last)

\* Array.prototype.slice(0, n)
Slice0(s, n) == SubSeq(s, 1, IF Len(s) < n THEN Len(s) ELSE n)

ExampleLimit == 3

\* the sourceFiles globs of the two example extractors
IsExampleSource(rel) ==
    /\ \E d \in {<<"s","r","c","/">>, <<"p","a","g","e","s","/">>, <<"a","p","p","/">>, <<"c","o","m","p","o","n","e","n","t","s","/">>} : StartsWith(rel, d)
    /\ HasScriptExt(rel)
    /\ ~EndsWithAny(rel, <<".","s","t","o","r","i","e","s",".">>, {<<"j","s">>, <<"j","s","x">>, <<"t","s">>, <<"t","s","x">>})
    /\ ~EndsWithAny(rel, <<".","t","e","s","t",".">>, {<<"j","s">>, <<"j","s","x">>, <<"t","s">>, <<"t","s","x">>})
    /\ <<"n","o","d","e","_","m","o","d","u","l","e","s">> \notin DirSegments(rel)

ExampleSources(proj) ==
    SelectSeq(proj, LAMBDA f : /\ StartsWith(f.path, ProjRoot \o <<"/">>)
                               /\ IsExampleSource(Relative(ProjRoot, f.path)))

\* findJSXUsage: an element nested in another JSX element is visited through
\* node.children and again through the walk over all keys
RECURSIVE FindJSXUsage(_, _)
FindJSXUsage(sites, componentName) ==
    IF sites = <<>> THEN <<>>
    ELSE LET s == Head(sites)
             found == IF s.name # componentName THEN <<>>
                      ELSE IF s.nested THEN <<s.code, s.code>>
                      ELSE <<s.code>>
         IN found \o FindJSXUsage(Tail(sites), componentName)

\* findHookUsage
RECURSIVE FindHookUsage(_, _)
FindHookUsage(sites, hookName) ==
    IF sites = <<>> THEN <<>>
    ELSE (IF Head(sites).name = hookName THEN <<Head(sites).code>> ELSE <<>>)
         \o FindHookUsage(Tail(sites), hookName)

\* the examples of all source files; a file whose read or parse throws is skipped
RECURSIVE JsxExamples(_, _)
JsxExamples(sources, componentName) ==
    IF sources = <<>> THEN <<>>
    ELSE LET f == Head(sources)
         IN (IF f.readable /\ f.babelOk THEN FindJSXUsage(f.jsxSites, componentName)
             ELSE <<>>)
            \o JsxExamples(Tail(sources), componentName)

RECURSIVE HookExamples(_, _)
HookExamples(sources, hookName) ==
    IF sources = <<>> THEN <<>>
    ELSE LET f == Head(sources)
         IN (IF f.readable /\ f.babelOk THEN FindHookUsage(f.hookSites, hookName)
             ELSE <<>>)
            \o HookExamples(Tail(sources), hookName)

\* extractRealUsageExamples without the slice
ExtractRealUsageExamples_NoLimit(proj, componentName) ==
    Unique(JsxExamples(ExampleSources(proj), componentName))

ExtractRealUsageExamples(proj, componentName) ==
    Slice0(Unique(JsxExamples(ExampleSources(proj), componentName)), ExampleLimit)

ExtractHookUsageExamples(proj, hookName) ==
    Slice0(Unique(HookExamples(ExampleSources(proj), hookName)), ExampleLimit)

-----------------------------------------------------------------------------
(* scanComponents.  A record keeps displayName, filePath, type and         *)
(* realUsageExamples (an absent list is the empty one); props, jsdoc,      *)
(* signatures and hookUsages are left out.                                 *)

Doc(n, fp, t, ex) == [displayName |-> n, filePath |-> fp, type |-> t, realUsageExamples |-> ex]

\* what one iteration of the first pass adds, and whether it ended in the
\* catch of line 1036
Step(recs, threw) == [docs |-> recs, threw |-> threw]

\* the loops over the parsed components (870-932, 974-1034): records pushed
\* before a throw stay in docs
RECURSIVE Records(_, _, _, _, _, _)
Records(side, proj, file, names, code, acc) ==
    IF names = <<>> THEN Step(acc, FALSE)
    ELSE LET name == Head(names)
             docType == AnalyzeCodeContent(side, DiskOf(proj), file, name, code, TRUE)
             realUsageExamples ==
                 IF docType = "component" THEN ExtractRealUsageExamples(proj, name)
                 ELSE IF docType = "hook" THEN ExtractHookUsageExamples(proj, name)
                 ELSE <<>>
         IN IF docType = Threw THEN Step(acc, TRUE)
            ELSE Records(side, proj, file, Tail(names), code,
                         Append(acc, Doc(name, Relative(ProjRoot, file), docType,
                                         realUsageExamples)))

\* isConfigFile of the JavaScript branch
IsConfigFile(file) ==
    LET filename == ToLowerCase(Basename(file))
    IN \/ Includes(filename, <<".","c","o","n","f","i","g",".">>) \/ Includes(filename, <<".","c","o","n","f",".">>)
       \/ StartsWith(filename, <<"c","o","n","f","i","g">>)
       \/ \E w \in {<<"t","a","i","l","w","i","n","d">>, <<"p","o","s","t","c","s","s">>, <<"e","s","l","i","n","t">>, <<"b","a","b","e","l">>, <<"w","e","b","p","a","c","k">>,
                    <<"v","i","t","e">>, <<"t","e","s","t">>} : Includes(filename, w)

\* c.displayName || inferNameFromPath(file)
RECURSIVE JsNames(_, _)
JsNames(names, file) ==
    IF names = <<>> THEN <<>>
    ELSE <<IF Head(names) = <<>> THEN InferNameFromPath(file) ELSE Head(names)>>
         \o JsNames(Tail(names), file)

\* one iteration of the first pass (810-1039)
FileStep(side, proj, file) ==
    LET f == FileAt(proj, file)
        code == [given |-> TRUE, text |-> f.text]
    IN
    IF IsMdx(file)
    THEN IF ~f.readable THEN Step(<<>>, TRUE)
         ELSE Step(<<Doc(InferNameFromPath(file), Relative(ProjRoot, file), "mdx", <<>>)>>,
                   FALSE)
    ELSE IF IsTs(file)
    THEN IF ~f.readable THEN Step(<<>>, TRUE)
         ELSE IF ~DocgenParse(f).ok THEN Step(<<>>, FALSE)
         ELSE Records(side, proj, file, DocgenParse(f).names, code, <<>>)
    ELSE IF IsJs(file)
    THEN IF ~f.readable THEN Step(<<>>, TRUE)
         ELSE IF IsConfigFile(file) THEN Step(<<>>, FALSE)
         ELSE IF ~HasAny(f.text, {"React", "export", "function", "const", "class"})
         THEN Step(<<>>, FALSE)
         ELSE IF ~f.jsx.ok THEN Step(<<>>, FALSE)
         ELSE Records(side, proj, file, JsNames(f.jsx.names, file), code, <<>>)
    ELSE Step(<<>>, FALSE)

\* the first pass without the try/catch around the iteration
Rethrows_NoCatch(step) == step.threw

\* the catch of line 1036 swallows whatever the iteration threw
Rethrows(step) == FALSE

\* BUILT_IN_HOOKS, flattened
ALL_BUILT_IN_HOOKS ==
    <<<<"u","s","e","S","t","a","t","e">>, <<"u","s","e","R","e","d","u","c","e","r">>, <<"u","s","e","E","f","f","e","c","t">>, <<"u","s","e","L","a","y","o","u","t","E","f","f","e","c","t">>, <<"u","s","e","M","e","m","o">>,
      <<"u","s","e","C","a","l","l","b","a","c","k">>, <<"u","s","e","C","o","n","t","e","x","t">>, <<"u","s","e","R","e","f">>, <<"u","s","e","I","m","p","e","r","a","t","i","v","e","H","a","n","d","l","e">>, <<"u","s","e","I","d">>,
      <<"u","s","e","D","e","b","u","g","V","a","l","u","e">>, <<"u","s","e","D","e","f","e","r","r","e","d","V","a","l","u","e">>, <<"u","s","e","T","r","a","n","s","i","t","i","o","n">>,
      <<"u","s","e","S","y","n","c","E","x","t","e","r","n","a","l","S","t","o","r","e">>, <<"u","s","e","I","n","s","e","r","t","i","o","n","E","f","f","e","c","t">>>>

IsBuiltIn(hookName) == \E i \in 1..Len(ALL_BUILT_IN_HOOKS) : ALL_BUILT_IN_HOOKS[i] = hookName

IsScript(file) == IsTs(file) \/ IsJs(file)

\* the names the three regular expressions of findAllHookNames find in a file
FileHookNames(f) ==
    SelectSeq([i \in 1..Len(f.hookSites) |-> f.hookSites[i].name] \o f.defines,
              MatchesUseUpper)

RECURSIVE FoundHookNames(_, _)
FoundHookNames(proj, fileList) ==
    IF fileList = <<>> THEN <<>>
    ELSE LET f == FileAt(proj, Head(fileList))
         IN (IF IsScript(f.path) /\ f.readable THEN FileHookNames(f) ELSE <<>>)
            \o FoundHookNames(proj, Tail(fileList))

\* findAllHookNames: a Set, iterated in insertion order
FindAllHookNames(proj, fileList) == Unique(ALL_BUILT_IN_HOOKS \o FoundHookNames(proj, fileList))

\* scanAllHookUsages: one usage per declaration whose initialiser calls a
\* name starting with `use`; the map is kept as the list of its usages
FileHookUsages(f) ==
    LET sites == SelectSeq(f.hookSites, LAMBDA s : IsHook(s.name))
    IN [i \in 1..Len(sites) |->
           [hookName |-> sites[i].name, file |-> Relative(ProjRoot, f.path),
            code |-> sites[i].code]]

RECURSIVE ScanAllHookUsages(_, _)
ScanAllHookUsages(proj, fileList) ==
    IF fileList = <<>> THEN <<>>
    ELSE LET f == FileAt(proj, Head(fileList))
         IN (IF IsScript(f.path) /\ f.readable /\ f.babelOk THEN FileHookUsages(f) ELSE <<>>)
            \o ScanAllHookUsages(proj, Tail(fileList))

\* hookUsageMap[hookName] || []
UsagesOf(usageMap, hookName) == SelectSeq(usageMap, LAMBDA u : u.hookName = hookName)

NoDoc == [found |-> FALSE, doc |-> Doc(<<>>, <<>>, "hook", <<>>)]

SomeDoc(d) == [found |-> TRUE, doc |-> d]

\* the files in which scanSpecificHook finds the definition of the hook
DefiningFiles(proj, fileList, hookName) ==
    SelectSeq(fileList, LAMBDA p :
        LET f == FileAt(proj, p)
        IN /\ IsScript(p) /\ f.readable
           /\ \E i \in 1..Len(f.defines) : f.defines[i] = hookName)

\* scanSpecificHook
ScanSpecificHook(proj, fileList, hookName, hookUsages) ==
    IF IsBuiltIn(hookName) /\ hookUsages # <<>>
    THEN SomeDoc(Doc(hookName, <<"R","e","a","c","t"," ","B","u","i","l","t","-","i","n">>, "hook", <<>>))
    ELSE IF DefiningFiles(proj, fileList, hookName) # <<>>
    THEN SomeDoc(Doc(hookName,
                     Relative(ProjRoot, Head(DefiningFiles(proj, fileList, hookName))),
                     "hook", ExtractHookUsageExamples(proj, hookName)))
    ELSE IF hookUsages # <<>>
    THEN SomeDoc(Doc(hookName, <<"U","n","k","n","o","w","n">>, "hook", <<>>))
    ELSE NoDoc

\* the second pass (1041-1056): a hook already documented as a hook is only
\* enhanced with usage information
RECURSIVE SecondPass(_, _, _, _, _)
SecondPass(proj, fileList, hookNames, usageMap, recs) ==
    IF hookNames = <<>> THEN recs
    ELSE LET hookName == Head(hookNames)
             hookDoc == ScanSpecificHook(proj, fileList, hookName,
                                         UsagesOf(usageMap, hookName))
             existingHook == \E i \in 1..Len(recs) :
                                 recs[i].displayName = hookName /\ recs[i].type = "hook"
         IN SecondPass(proj, fileList, Tail(hookNames), usageMap,
                       IF hookDoc.found /\ ~existingHook THEN Append(recs, hookDoc.doc)
                       ELSE recs)

\* the first pass as a whole
RECURSIVE FirstPass(_, _, _)
FirstPass(side, proj, fileList) ==
    IF fileList = <<>> THEN <<>>
    ELSE FileStep(side, proj, Head(fileList)).docs \o FirstPass(side, proj, Tail(fileList))

\* scanComponents(patterns, projectRoot) run from start to end against one
\* state of the sidecar
ScanComponents(side, proj, patterns) ==
    LET fileList == Globby(proj, patterns)
    IN SecondPass(proj, fileList, FindAllHookNames(proj, fileList),
                  ScanAllHookUsages(proj, fileList), FirstPass(side, proj, fileList))

-----------------------------------------------------------------------------
(* updateComponentOverride and removeComponentOverride, as functions of    *)
(* the sidecar file.  On a sidecar whose JSON has no `overrides` array     *)
(* config.overrides.findIndex / .filter throws before anything is saved.   *)

\* updateComponentOverride without the findIndex: the entry is always pushed
UpdateOverrideFile_AlwaysPush(file, fp, cn, orig, new) ==
    LET loaded == LoadOverrides(file)
    IN IF loaded.value # "config" THEN file
       ELSE SaveOverrides([loaded EXCEPT !.overrides =
                Append(loaded.overrides, Override(fp, cn, orig, new))])

UpdateOverrideFile(file, fp, cn, orig, new) ==
    LET loaded == LoadOverrides(file)
        existingIndex == FindIndex(loaded.overrides, fp, cn)
        newOverride == Override(fp, cn, orig, new)
    IN IF loaded.value # "config" THEN file
       ELSE SaveOverrides([loaded EXCEPT !.overrides =
                IF existingIndex > 0 THEN [loaded.overrides EXCEPT ![existingIndex] = newOverride]
                ELSE Append(loaded.overrides, newOverride)])

RemoveOverrideFile(file, fp, cn) ==
    LET loaded == LoadOverrides(file)
    IN IF loaded.value # "config" THEN file
       ELSE SaveOverrides([loaded EXCEPT !.overrides =
                SelectSeq(loaded.overrides, LAMBDA o : ~Matches(o, fp, cn))])

-----------------------------------------------------------------------------
(* The scanned project: eight files whose fate and usage sites vary.       *)

P_Intro   == <<"/","p","/","d","o","c","s","/","i","n","t","r","o",".","m","d","x">>
P_Stories == <<"/","p","/","s","r","c","/","B","u","t","t","o","n",".","s","t","o","r","i","e","s",".","t","s","x">>
P_FooTest == <<"/","p","/","s","r","c","/","_","_","t","e","s","t","s","_","_","/","F","o","o",".","t","e","s","t",".","t","s","x">>
P_Legacy  == <<"/","p","/","s","r","c","/","l","e","g","a","c","y",".","j","s">>

P_LibAuth == <<"/","p","/","s","r","c","/","l","i","b","/","u","s","e","A","u","t","h",".","t","s">>

N_Primary  == <<"P","r","i","m","a","r","y">>
N_useState == <<"u","s","e","S","t","a","t","e">>

FileStatuses == {"ok", "fallback", "unparsable", "unreadable"}

\* a file in one of the four states of FileStatuses: parsed at the first
\* attempt, parsed at the second, rejected by every parser, unreadable; or
\* "silent": the first attempt returns no record without throwing, the later
\* ones would return the file's records
SourceFile(path, status, names, text, jsxSites, hookSites, defines) ==
    [path |-> path,
     readable |-> status # "unreadable",
     docgen |-> IF status = "ok" THEN <<Parsed(names), Parsed(names), Parsed(names)>>
                ELSE IF status = "silent" THEN <<Parsed(<<>>), Parsed(names), Parsed(names)>>
                ELSE IF status = "fallback" THEN <<ParseThrows, Parsed(names), Parsed(names)>>
                ELSE <<ParseThrows, ParseThrows, ParseThrows>>,
     jsx |-> IF status \in {"ok", "fallback", "silent"} THEN Parsed(names) ELSE ParseThrows,
     babelOk |-> status \in {"ok", "fallback", "silent"},
     text |-> text, jsxSites |-> jsxSites, hookSites |-> hookSites, defines |-> defines]

\* the probes a file contains because of its usage sites
SiteText(jsxSites, hookSites) ==
    {<<"$", jsxSites[i].name>> : i \in 1..Len(jsxSites)}
    \cup {<<"<$", jsxSites[i].name>> : i \in 1..Len(jsxSites)}
    \cup {<<"$", hookSites[i].name>> : i \in 1..Len(hookSites)}

StateSite == HookSite(N_useState, "const [n, setN] = useState(0)")

\* the usage sites of src/pages/Dashboard.tsx
Usages ==
    {[jsxSites |-> <<>>, hookSites |-> <<StateSite>>],
     [jsxSites |-> <<JsxSite(N_Foo, "<Foo />", TRUE)>>,
      hookSites |-> <<StateSite, HookSite(N_useAuth, "const auth = useAuth()")>>],
     [jsxSites |-> <<JsxSite(N_Foo, "<Foo />", TRUE), JsxSite(N_Foo, "<Foo a />", FALSE),
                     JsxSite(N_Foo, "<Foo />", TRUE), JsxSite(N_Foo, "<Foo b />", TRUE),
                     JsxSite(N_Foo, "<Foo c />", FALSE)>>,
      hookSites |-> <<StateSite, HookSite(N_useAuth, "const auth = useAuth()"),
                      HookSite(N_useAuth, "const { user } = useAuth()"),
                      HookSite(N_useAuth, "const auth = useAuth()"),
                      HookSite(N_useAuth, "const a = useAuth()"),
                      HookSite(N_useAuth, "const b = useAuth()")>>]}

Project(fooStatus, authStatus, usage) ==
    <<SourceFile(P_Intro, "ok", <<>>, Text({}), <<>>, <<>>, <<>>),
      SourceFile(P_Stories, "ok", <<N_Primary>>,
                 Text({"export default", "export", "export const", "const", "{"}),
                 <<>>, <<>>, <<>>),
      SourceFile(P_Foo, fooStatus, <<N_Foo>>,
                 Text({"export function", "export", "function", "{"}), <<>>, <<>>, <<>>),
      SourceFile(P_FooTest, "ok", <<>>, Text({"const", "{"}),
                 <<JsxSite(N_Foo, "<Foo test />", FALSE)>>, <<>>, <<>>),
      SourceFile(P_useAuth, authStatus, <<N_useAuth>>,
                 Text({"export function", "export", "function", "{"}),
                 <<>>, <<>>, <<N_useAuth>>),
      SourceFile(P_Legacy, "ok", << <<>> >>,
                 Text({"export default", "export", "function", "{"}), <<>>, <<>>, <<>>),
      SourceFile(P_LibAuth, "ok", <<>>,
                 Text({"export function", "export", "function", "{"}),
                 <<>>, <<>>, <<N_useAuth>>),
      SourceFile(P_Dashboard, "ok", <<N_Dashboard>>,
                 Text({"export default", "export", "function", "const", "{", "[", "useState"})
                     \cup SiteText(usage.jsxSites, usage.hookSites),
                 usage.jsxSites, usage.hookSites, <<>>)>>

Projects ==
    {Project(fs, as, u) : fs \in FileStatuses, as \in {"ok", "unparsable"}, u \in Usages}

EntryPaths == {"src/**/*.{ts,tsx,js,jsx}", "docs/**/*.{md,mdx}"}

Configs == {[entryPaths |-> EntryPaths, exclude |-> e] : e \in {{}, DefaultExclude}}

\* the arguments of the override calls
EditPaths == {P_Foo, Relative(ProjRoot, P_Foo)}

EditTypes == {"page", "hook"}

-----------------------------------------------------------------------------
(* The build after the scan: analyzeComponentUsageInPages on the records   *)
(* of scanComponents.                                                      *)

\* `const docs: ComponentDoc[] = []` of line 809, kept from one call to the next
FreshDocs_Keep(old) == old

\* `const docs: ComponentDoc[] = []` of line 809: every call starts empty
FreshDocs(old) == <<>>

\* what the patterns of extractUsedComponents see of a file: its JSX elements
\* and its hook declarations
PageOccurrences(f) ==
    [i \in 1..Len(f.jsxSites) |-> Occ("jsxOpen", f.jsxSites[i].name)]
    \o [i \in 1..Len(f.hookSites) |-> Occ("hookDecl", f.hookSites[i].name)]

\* componentMap: the last record of a displayName is the one of the map
KnownOf(components) ==
    {[displayName |-> components[i].displayName, type |-> components[i].type] :
        i \in {k \in 1..Len(components) :
                 /\ components[k].displayName # <<>>
                 /\ \A j \in (k + 1)..Len(components) :
                        components[j].displayName # components[k].displayName}}

\* fs.readFile(page.filePath) resolves the relative path against process.cwd()
PageFileReadable(proj, rel) ==
    \E i \in 1..Len(proj) : proj[i].path = ProjRoot \o <<"/">> \o rel /\ proj[i].readable

WithUsage(d, analysed, used) == [doc |-> d, analysed |-> analysed, usedComponents |-> used]

\* analyzeComponentUsageInPages: a page whose file cannot be read keeps its
\* record without usedComponents
AnalyzeComponentUsageInPages(proj, components) ==
    [i \in 1..Len(components) |->
        LET page == components[i]
        IN IF page.type = "page" /\ page.filePath # <<>>
              /\ PageFileReadable(proj, page.filePath)
           THEN WithUsage(page, TRUE,
                    ExtractUsedComponents(
                        PageOccurrences(FileAt(proj, ProjRoot \o <<"/">> \o page.filePath)),
                        KnownOf(components)))
           ELSE WithUsage(page, FALSE, <<>>)]

\* the pipeline of build run from start to end against one state of the
\* sidecar
Pipeline(side, proj, patterns) ==
    AnalyzeComponentUsageInPages(proj, ScanComponents(side, proj, patterns))

InitScan ==
    /\ sidecar \in {FileMissing, FileInvalid, FileNull, FileEmptyObject, FileConfig(<<>>)}
    /\ project \in Projects
    /\ userConfig \in Configs
    /\ files = <<>> /\ cursor = 0 /\ allHookNames = <<>> /\ hookUsageMap = <<>>
    /\ docs = <<>> /\ spc = "idle" /\ dirty = FALSE /\ componentsWithUsage = <<>>
    /\ snapshot = FileMissing
    /\ ClassifyIdle
    /\ UsageIdle
    /\ WatchIdle
    /\ WriteIdle
    /\ StoreIdle
    /\ RestIdle

Scanning == spc \in {"registry", "files"}

\* build: scanComponents(config.entryPaths, process.cwd()), up to the globby call
GlobFiles ==
    /\ ~Scanning
    /\ files' = Globby(project, userConfig.entryPaths)
    /\ cursor' = 1
    /\ allHookNames' = <<>> /\ hookUsageMap' = <<>> /\ docs' = FreshDocs(docs)
    /\ componentsWithUsage' = <<>>
    /\ spc' = "registry"
    /\ dirty' = FALSE
    /\ UNCHANGED <<sidecar, classVars, usageVars, watchVars, writeVars, storeVars, raceVars, mdxVars, buildVars, project, userConfig>>

Enumerate == GlobFiles /\ UNCHANGED snapshot

\* the same step, with the sidecar of that moment recorded
EnumerateRecorded == GlobFiles /\ snapshot' = sidecar

\* the first pass entered without findAllHookNames and scanAllHookUsages
Registry_Skipped ==
    /\ spc = "registry"
    /\ spc' = "files"
    /\ UNCHANGED <<sidecar, classVars, usageVars, watchVars, writeVars, storeVars, raceVars, mdxVars, buildVars, snapshot, project, userConfig, files, cursor, docs,
                   dirty, componentsWithUsage, allHookNames, hookUsageMap>>

\* lines 799-809: findAllHookNames and scanAllHookUsages
Registry ==
    /\ spc = "registry"
    /\ allHookNames' = FindAllHookNames(project, files)
    /\ hookUsageMap' = ScanAllHookUsages(project, files)
    /\ spc' = "files"
    /\ UNCHANGED <<sidecar, classVars, usageVars, watchVars, writeVars, storeVars, raceVars, mdxVars, buildVars, snapshot, project, userConfig, files, cursor, docs,
                   dirty, componentsWithUsage>>

\* one iteration of the first pass
ScanFile ==
    /\ spc = "files" /\ cursor <= Len(files)
    /\ LET step == FileStep(sidecar, project, files[cursor])
       IN IF Rethrows(step)
          THEN spc' = "aborted" /\ docs' = <<>> /\ cursor' = cursor
          ELSE spc' = spc /\ docs' = docs \o step.docs /\ cursor' = cursor + 1
    /\ UNCHANGED <<sidecar, classVars, usageVars, watchVars, writeVars, storeVars, raceVars, mdxVars, buildVars, snapshot, project, userConfig, files, allHookNames,
                   hookUsageMap, dirty, componentsWithUsage>>

\* the second pass and the return
HookPass ==
    /\ spc = "files" /\ cursor > Len(files)
    /\ docs' = SecondPass(project, files, allHookNames, hookUsageMap, docs)
    /\ spc' = "done"
    /\ UNCHANGED <<sidecar, classVars, usageVars, watchVars, writeVars, storeVars, raceVars, mdxVars, buildVars, snapshot, project, userConfig, files, cursor,
                   allHookNames, hookUsageMap, dirty, componentsWithUsage>>

\* build, step 2: analyzeComponentUsageInPages(components, projectRoot)
AnalyzeUsage ==
    /\ spc = "done"
    /\ componentsWithUsage' = AnalyzeComponentUsageInPages(project, docs)
    /\ spc' = "analyzed"
    /\ UNCHANGED <<sidecar, classVars, usageVars, watchVars, writeVars, storeVars, raceVars, mdxVars, buildVars, snapshot, project, userConfig, files, cursor,
                   allHookNames, hookUsageMap, docs, dirty>>

UpdateComponentOverride(fp, cn, orig, new) ==
    /\ sidecar' = UpdateOverrideFile(sidecar, fp, cn, orig, new)
    /\ sidecar' # sidecar
    /\ dirty' = TRUE
    /\ UNCHANGED <<classVars, usageVars, watchVars, writeVars, storeVars, raceVars, mdxVars, buildVars, snapshot, project, userConfig, files, cursor, allHookNames,
                   hookUsageMap, docs, spc, componentsWithUsage>>

RemoveComponentOverride(fp, cn) ==
    /\ sidecar' = RemoveOverrideFile(sidecar, fp, cn)
    /\ sidecar' # sidecar
    /\ dirty' = TRUE
    /\ UNCHANGED <<classVars, usageVars, watchVars, writeVars, storeVars, raceVars, mdxVars, buildVars, snapshot, project, userConfig, files, cursor, allHookNames,
                   hookUsageMap, docs, spc, componentsWithUsage>>

NextScan ==
    \/ Enumerate
    \/ Registry
    \/ ScanFile
    \/ HookPass
    \/ AnalyzeUsage
    \/ \E fp \in EditPaths, new \in EditTypes :
           UpdateComponentOverride(fp, N_Foo, "component", new)
    \/ \E fp \in EditPaths : RemoveComponentOverride(fp, N_Foo)

SpecScan == InitScan /\ [][NextScan]_vars

-----------------------------------------------------------------------------
(* Properties of the scan.  A finished scan is `settled` when the sidecar  *)
(* has not been written since the scan started, so the sidecar of the      *)
(* state is the one every classification of the scan read.                 *)

Settled == spc = "done" /\ ~dirty

\* the record of this path and name of the first pass
HasRecord(fp, n, t) ==
    \E k \in 1..Len(docs) :
        docs[k].filePath = fp /\ docs[k].displayName = n /\ docs[k].type = t

\* C2 -- after a scan that started once the override was saved, every record
\* whose filePath and displayName are the key of a saved override carries the
\* override's category.
C2_OverrideTakesEffect ==
    (Settled /\ sidecar.value = "config") =>
        \A i \in 1..Len(sidecar.overrides) : \A k \in 1..Len(docs) :
            Matches(sidecar.overrides[i], docs[k].filePath, docs[k].displayName)
                => docs[k].type = sidecar.overrides[i].overrideType

\* C7 -- every record of a scan has at most three real usage examples and no
\* two of them are equal.
C7_ExampleCap ==
    \A k \in 1..Len(docs) :
        /\ Len(docs[k].realUsageExamples) <= 3
        /\ \A a, b \in 1..Len(docs[k].realUsageExamples) :
               a # b => docs[k].realUsageExamples[a] # docs[k].realUsageExamples[b]

\* the page has five elements of Foo, four of them different, and the record
\* of Foo lists three
C7_Witness ==
    /\ spc = "done"
    /\ Len(JsxExamples(ExampleSources(project), N_Foo)) > 4
    /\ Len(Unique(JsxExamples(ExampleSources(project), N_Foo))) = 4
    /\ \E k \in 1..Len(docs) :
           /\ docs[k].displayName = N_Foo /\ docs[k].type = "component"
           /\ Len(docs[k].realUsageExamples) = 3

\* C8 -- with a sidecar that is missing or is not a {version, overrides}
\* document, a scan ends with the records of a scan with no overrides.
C8_MalformedSidecarIsEmpty ==
    (Settled /\ sidecar.value # "config") =>
        docs = ScanComponents(FileConfig(<<>>), project, userConfig.entryPaths)

\* C9 -- no record of a finished scan comes from a file that matches one of
\* the exclude patterns of the configuration.
C9_ExcludeHonoured ==
    spc = "done" =>
        \A k \in 1..Len(docs) :
            \A pat \in userConfig.exclude : ~GlobMatches(pat, docs[k].filePath)

\* C10 -- the scan never aborts, and a finished scan holds every record of
\* every enumerated file whatever happened to the other files.
C10_FailureIsolation ==
    /\ spc # "aborted"
    /\ Settled =>
          \A i \in 1..Len(files) :
              LET step == FileStep(sidecar, project, files[i])
              IN \A k \in 1..Len(step.docs) : \E j \in 1..Len(docs) : docs[j] = step.docs[k]

\* src/Foo.tsx could not be read, useAuth.ts was rejected by every parser, and
\* the scan ended with the records of the story, the JavaScript file and the page
C10_Witness ==
    /\ Settled
    /\ \E i \in 1..Len(files) :
           files[i] = P_Foo /\ FileStep(sidecar, project, files[i]).threw
    /\ ~DocgenParse(FileAt(project, P_useAuth)).ok
    /\ HasRecord(Relative(ProjRoot, P_Stories), N_Primary, "component")
    /\ HasRecord(Relative(ProjRoot, P_Legacy), InferNameFromPath(P_Legacy), "component")
    /\ HasRecord(Relative(ProjRoot, P_Dashboard), N_Dashboard, "page")
    /\ ~\E k \in 1..Len(docs) : docs[k].displayName = N_Foo

-----------------------------------------------------------------------------
(* Watch mode (commands/dev.ts).  Time advances in ticks; the debounce     *)
(* delay of 500 ms is DebounceTicks ticks.  A timer that has run out fires *)
(* before time advances further and before a later event is delivered.     *)

MaxEvents == 5

\* clearTimeout left out of debouncedRebuild
ClearTimeout_Noop(pending) == <<>> \o pending

\* clearTimeout(global.__smartdocs_rebuild_timeout): the handle is the timer
\* set by the previous call, the newest one
ClearTimeout(pending) ==
    IF pending = <<>> THEN pending ELSE SubSeq(pending, 1, Len(pending) - 1)

\* debouncedRebuild without its setTimeout
SetTimeout_Never(pending) == <<>> \o pending

\* setTimeout(callback, 500)
SetTimeout(pending) == Append(pending, DebounceTicks)

Due(pending) == \E i \in 1..Len(pending) : pending[i] = 0

InitWatch ==
    /\ timers = <<>> /\ running = 0 /\ started = 0 /\ events = 0
    /\ sinceLast = DebounceTicks /\ bursts = 0 /\ awaiting = 0
    /\ sidecar = FileMissing
    /\ ClassifyIdle
    /\ UsageIdle
    /\ ScanIdle
    /\ WriteIdle
    /\ StoreIdle
    /\ RestIdle

\* chokidar delivers change, add or unlink: debouncedRebuild(config).  The
\* event opens a new burst unless it comes less than the delay after the
\* previous one.  The handler awaits the promise of the call, which only the
\* callback of the call's own timer resolves.
FileEvent ==
    /\ events < MaxEvents
    /\ ~Due(timers)
    /\ timers' = SetTimeout(ClearTimeout(timers))
    /\ events' = events + 1
    /\ bursts' = IF sinceLast >= DebounceTicks THEN bursts + 1 ELSE bursts
    /\ sinceLast' = 0
    /\ awaiting' = awaiting + 1
    /\ UNCHANGED <<sidecar, classVars, usageVars, scanVars, writeVars, storeVars, raceVars, mdxVars, buildVars, running, started>>

\* one tick of time passes
Tick ==
    /\ ~Due(timers)
    /\ timers # <<>> \/ sinceLast < DebounceTicks
    /\ timers' = [i \in 1..Len(timers) |-> timers[i] - 1]
    /\ sinceLast' = IF sinceLast < DebounceTicks THEN sinceLast + 1 ELSE sinceLast
    /\ UNCHANGED <<sidecar, classVars, usageVars, scanVars, writeVars, storeVars, raceVars, mdxVars, buildVars, running, started, events, bursts,
                   awaiting>>

\* a timer runs out: its callback calls buildDocumentation, whatever else is
\* running
TimerFires ==
    /\ Due(timers)
    /\ LET i == CHOOSE k \in 1..Len(timers) : timers[k] = 0
       IN timers' = SubSeq(timers, 1, i - 1) \o SubSeq(timers, i + 1, Len(timers))
    /\ running' = running + 1
    /\ started' = started + 1
    /\ UNCHANGED <<sidecar, classVars, usageVars, scanVars, writeVars, storeVars, raceVars, mdxVars, buildVars, events, sinceLast, bursts,
                   awaiting>>

\* a buildDocumentation call returns (or throws into the catch): resolve()
BuildReturns ==
    /\ running > 0
    /\ running' = running - 1
    /\ awaiting' = awaiting - 1
    /\ UNCHANGED <<sidecar, classVars, usageVars, scanVars, writeVars, storeVars, raceVars, mdxVars, buildVars, timers, started, events,
                   sinceLast, bursts>>

NextWatch == FileEvent \/ Tick \/ TimerFires \/ BuildReturns

SpecWatch == InitWatch /\ [][NextWatch]_vars

\* the event loop runs every timer that is due and every build to its end, and
\* time does not stop
SpecWatchFair ==
    SpecWatch /\ WF_vars(Tick) /\ WF_vars(TimerFires) /\ WF_vars(BuildReturns)

\* C12 -- every burst of events has started exactly one rebuild, or has its
\* one rebuild pending, due a full delay after the last event of the burst.
C12_DebounceCoalescing ==
    /\ started + (IF timers # <<>> THEN 1 ELSE 0) = bursts
    /\ timers # <<>> => timers = <<DebounceTicks - sinceLast>>

\* a burst of three events has started one rebuild
C12_Witness == events = 3 /\ bursts = 1 /\ started = 1 /\ timers = <<>>

\* C20 -- at no time are two rebuilds running.
C20_NoRebuildOverlap == running <= 1

-----------------------------------------------------------------------------
(* Further claims about the classifier (checked under SpecClassify).       *)

\* the text the heuristics of the finished call examined
CallContent ==
    IF call.code.given THEN call.code.text
    ELSE IF call.sym.filePath \in DOMAIN call.disk THEN call.disk[call.sym.filePath]
    ELSE {}

CallRule == DecidingRule(call.disk, call.sym.filePath, call.sym.name, call.code)

CallReferencedInRoutes ==
    IsReferencedInRoutes(call.disk, call.sym.filePath, call.sym.name)

\* C13 -- a class-based service (class ApiService in src/services/ApiService.ts)
\* with no override is classified service.
C13_ClassServiceIsService ==
    (/\ cpc = "done" /\ NoMatchingOverride
     /\ call.sym = Sym(P_ApiService, N_ApiService)
     /\ call.code = Code({"export class"}))
        => result = "service"

\* the Dashboard scenario: default export in src/pages/Dashboard.tsx, referenced
\* as element={<Dashboard/>} in src/router.tsx, no override
DashboardScenario ==
    /\ cpc = "done" /\ NoMatchingOverride
    /\ call.sym = Sym(P_Dashboard, N_Dashboard)
    /\ HasDefaultExport(CallContent)
    /\ P_Router \in DOMAIN call.disk

-----------------------------------------------------------------------------
(* The page writer (generate/mdx.ts).                                      *)

MaxRecords == 2

Digits == {"0","1","2","3","4","5","6","7","8","9"}

\* the character class \w
IsWordChar(c) ==
    \/ \E i \in 1..Len(UpperChars) : UpperChars[i] = c \/ LowerChars[i] = c
    \/ c \in Digits
    \/ c = "_"

\* replace(/[^\w]+/g, "-"): every run of non-word characters becomes one "-"
RECURSIVE DashRuns(_)
DashRuns(s) ==
    IF s = <<>> THEN <<>>
    ELSE IF IsWordChar(Head(s)) THEN <<Head(s)>> \o DashRuns(Tail(s))
    ELSE IF Len(s) >= 2 /\ ~IsWordChar(s[2]) THEN DashRuns(Tail(s))
    ELSE <<"-">> \o DashRuns(Tail(s))

\* replace(/(^-|-$)/g, ""): one "-" at the start and one at the end removed
TrimDash(s) ==
    LET noHead == IF s # <<>> /\ Head(s) = "-" THEN Tail(s) ELSE s
    IN IF noHead # <<>> /\ noHead[Len(noHead)] = "-"
       THEN SubSeq(noHead, 1, Len(noHead) - 1)
       ELSE noHead

\* slug (line 117)
Slug(s) == TrimDash(DashRuns(ToLowerCase(s)))

\* path.join(outDir, `${type}s`)
TypeDir(type) == <<type, "s">>

\* path.join(typeDir, `${slug(c.displayName)}.mdx`)
PagePath(c) == [dir |-> TypeDir(c.type), file |-> Slug(c.displayName) \o <<".","m","d","x">>]

\* generateMdxContent: the title and the Source section identify the record
GenerateMdxContent(c, type) ==
    [title |-> c.displayName, slug |-> <<TypeDir(type), Slug(c.displayName)>>,
     source |-> c.filePath]

\* the keys of groupedComponents in insertion order
RECURSIVE TypesInOrder(_)
TypesInOrder(recs) ==
    IF recs = <<>> THEN <<>>
    ELSE LET before == TypesInOrder(SubSeq(recs, 1, Len(recs) - 1))
             t == recs[Len(recs)].type
         IN IF \E i \in 1..Len(before) : before[i] = t THEN before ELSE Append(before, t)

\* the order in which writeComponentPages writes: group by group
RECURSIVE GroupedFrom(_, _)
GroupedFrom(recs, types) ==
    IF types = <<>> THEN <<>>
    ELSE SelectSeq(recs, LAMBDA c : c.type = Head(types)) \o GroupedFrom(recs, Tail(types))

WriteOrder(recs) == GroupedFrom(recs, TypesInOrder(recs))

\* fs.writeFile: creates the file or replaces its content
WriteFile(disk, filePath, content) ==
    {f \in disk : f.path # filePath} \cup {[path |-> filePath, content |-> content]}

N_button    == <<"b","u","t","t","o","n">>
N_MyButton  == <<"M","y","-","B","u","t","t","o","n">>
N_My_Button == <<"M","y",".","B","u","t","t","o","n">>

WriterNames == {N_Button, N_button, N_MyButton, N_My_Button}

WriterRecords ==
    [displayName : WriterNames, type : {"component", "hook"},
     filePath : {Relative(ProjRoot, P_Button), Relative(ProjRoot, P_Foo)}]

RECURSIVE RecordLists(_)
RecordLists(n) ==
    IF n = 0 THEN {<<>>}
    ELSE LET shorter == RecordLists(n - 1)
         IN shorter \cup
            {Append(l, c) : l \in {x \in shorter : Len(x) = n - 1}, c \in WriterRecords}

\* one file yields a name once
DistinctRecords(recs) ==
    \A i, j \in 1..Len(recs) :
        i # j => <<recs[i].filePath, recs[i].displayName>> # <<recs[j].filePath, recs[j].displayName>>

InitWrite ==
    /\ comps \in {l \in RecordLists(MaxRecords) : DistinctRecords(l)}
    /\ outDir = {}
    /\ wcursor = 0
    /\ wpc = "ready"
    /\ sidecar = FileMissing
    /\ ClassifyIdle
    /\ UsageIdle
    /\ ScanIdle
    /\ WatchIdle
    /\ StoreIdle
    /\ RestIdle

\* writeComponentPages up to its first write: the records are grouped by type
GroupRecords ==
    /\ wpc = "ready"
    /\ wcursor' = 1
    /\ wpc' = IF comps = <<>> THEN "done" ELSE "writing"
    /\ UNCHANGED <<sidecar, classVars, usageVars, scanVars, watchVars, storeVars, raceVars, mdxVars, buildVars, comps, outDir>>

\* one iteration of the inner loop: mkdir of the type directory (on the first
\* record of a group) and writeFile of the record's page
WritePage ==
    /\ wpc = "writing"
    /\ LET c == WriteOrder(comps)[wcursor]
       IN outDir' = WriteFile(outDir, PagePath(c), GenerateMdxContent(c, c.type))
    /\ wcursor' = wcursor + 1
    /\ wpc' = IF wcursor = Len(comps) THEN "done" ELSE "writing"
    /\ UNCHANGED <<sidecar, classVars, usageVars, scanVars, watchVars, storeVars, raceVars, mdxVars, buildVars, comps>>

NextWrite == GroupRecords \/ WritePage

SpecWrite == InitWrite /\ [][NextWrite]_vars

\* C14 -- after writeComponentPages has written a list of records into an
\* empty directory, the directory holds as many documents as the list has
\* records.
C14_OneDocumentPerRecord ==
    wpc = "done" => Cardinality(outDir) = Len(comps)

-----------------------------------------------------------------------------
(* The override API on its own: sequences of updateComponentOverride and   *)
(* removeComponentOverride calls on a store that starts missing or empty.  *)

MaxCalls == 3

StoreKeys == {Sym(fp, n) : fp \in EditPaths, n \in {N_Foo, N_Button}}

UpdateCall(fp, cn, new) == [op |-> "update", filePath |-> fp, componentName |-> cn, newType |-> new]

RemoveCall(fp, cn) == [op |-> "remove", filePath |-> fp, componentName |-> cn, newType |-> "none"]

\* what the calls made so far leave for a key: the type of its last update
\* unless a remove came after it, "none" otherwise
RECURSIVE LastWrite(_, _, _)
LastWrite(calls, fp, cn) ==
    IF calls = <<>> THEN "none"
    ELSE LET last == calls[Len(calls)]
         IN IF last.filePath = fp /\ last.componentName = cn
            THEN last.newType
            ELSE LastWrite(SubSeq(calls, 1, Len(calls) - 1), fp, cn)

InitStore ==
    /\ sidecar \in {FileMissing, FileConfig(<<>>)}
    /\ history = <<>>
    /\ ClassifyIdle
    /\ UsageIdle
    /\ ScanIdle
    /\ WatchIdle
    /\ WriteIdle
    /\ RestIdle

\* updateComponentOverride(projectRoot, filePath, componentName, 'component', newType)
ApiUpdateOverride(fp, cn, new) ==
    /\ Len(history) < MaxCalls
    /\ sidecar' = UpdateOverrideFile(sidecar, fp, cn, "component", new)
    /\ history' = Append(history, UpdateCall(fp, cn, new))
    /\ UNCHANGED <<classVars, usageVars, scanVars, watchVars, writeVars, raceVars, mdxVars, buildVars>>

\* removeComponentOverride(projectRoot, filePath, componentName)
ApiRemoveOverride(fp, cn) ==
    /\ Len(history) < MaxCalls
    /\ sidecar' = RemoveOverrideFile(sidecar, fp, cn)
    /\ history' = Append(history, RemoveCall(fp, cn))
    /\ UNCHANGED <<classVars, usageVars, scanVars, watchVars, writeVars, raceVars, mdxVars, buildVars>>

NextStore ==
    \/ \E k \in StoreKeys, new \in EditTypes : ApiUpdateOverride(k.filePath, k.name, new)
    \/ \E k \in StoreKeys : ApiRemoveOverride(k.filePath, k.name)

SpecStore == InitStore /\ [][NextStore]_vars

\* C17 -- after any sequence of update and remove calls on a store that started
\* missing or empty, the store holds at most one entry per (filePath,
\* componentName), and a key's entry is the one written by its last update
\* since its last remove (no entry if there was none).
C17_StoreSemantics ==
    LET ov == LoadOverrides(sidecar).overrides
    IN /\ DistinctKeys(ov)
       /\ \A k \in StoreKeys :
             LET idx == FindIndex(ov, k.filePath, k.name)
                 last == LastWrite(history, k.filePath, k.name)
             IN IF last = "none" THEN idx = 0
                ELSE idx > 0 /\ ov[idx].overrideType = last

\* a key updated, another key updated, the first key updated again: the first
\* entry is replaced in place
C17_Witness ==
    /\ history = <<UpdateCall(P_Foo, N_Foo, "page"),
                   UpdateCall(Relative(ProjRoot, P_Foo), N_Foo, "page"),
                   UpdateCall(P_Foo, N_Foo, "hook")>>
    /\ LoadOverrides(sidecar).overrides =
           <<Override(P_Foo, N_Foo, "component", "hook"),
             Override(Relative(ProjRoot, P_Foo), N_Foo, "component", "page")>>

\* the enumerated file defines a hook of that name (the export patterns of
\* scanSpecificHook match in it)
DefinesHook(file, hookName) ==
    LET f == FileAt(project, file)
    IN /\ IsScript(file) /\ f.readable
       /\ \E i \in 1..Len(f.defines) : f.defines[i] = hookName

RecordOf(name, file) ==
    \E i \in 1..Len(docs) :
        docs[i].displayName = name /\ docs[i].filePath = Relative(ProjRoot, file)

\* C18 -- when two enumerated files each define a hook of the same name, the
\* finished scan holds a record of that name for each of the two files.
C18_DuplicateNamesKept ==
    (Settled /\ LoadOverrides(sidecar).value = "config") =>
        \A i, j \in 1..Len(files) :
            (i # j /\ DefinesHook(files[i], N_useAuth) /\ DefinesHook(files[j], N_useAuth))
                => RecordOf(N_useAuth, files[i]) /\ RecordOf(N_useAuth, files[j])

-----------------------------------------------------------------------------
(* One project scanned while the override file is edited, with the sidecar *)
(* of the moment the scan started kept for comparison.                     *)

\* the starting points: a sidecar and a project
SnapshotStarts ==
    ({FileMissing, FileConfig(<<>>), FileConfig(<<Override(P_Foo, N_Foo, "component", "hook")>>)}
        \X {Project("ok", "ok", u) : u \in Usages})
    \cup {<<FileConfig(<<>>), Project("silent", "ok", u)>> :
              u \in {v \in Usages : v.jsxSites = <<>>}}
    \cup {<<FileConfig(<<Override(P_useAuth, N_useAuth, "hook", "component")>>),
            Project("ok", "ok", u)>> : u \in {v \in Usages : v.jsxSites = <<>>}}

InitSnapshot ==
    /\ \E s \in SnapshotStarts : sidecar = s[1] /\ project = s[2]
    /\ snapshot = sidecar
    /\ userConfig = [entryPaths |-> EntryPaths, exclude |-> DefaultExclude]
    /\ files = <<>> /\ cursor = 0 /\ allHookNames = <<>> /\ hookUsageMap = <<>>
    /\ docs = <<>> /\ spc = "idle" /\ dirty = FALSE /\ componentsWithUsage = <<>>
    /\ ClassifyIdle
    /\ UsageIdle
    /\ WatchIdle
    /\ WriteIdle
    /\ StoreIdle
    /\ RestIdle

NextSnapshot ==
    \/ EnumerateRecorded
    \/ Registry
    \/ ScanFile
    \/ HookPass
    \/ AnalyzeUsage
    \/ \E fp \in EditPaths, new \in EditTypes :
           UpdateComponentOverride(fp, N_Foo, "component", new)
    \/ \E fp \in EditPaths : RemoveComponentOverride(fp, N_Foo)

SpecSnapshot == InitSnapshot /\ [][NextSnapshot]_vars

\* the categories a scan of the project gives under one state of the sidecar
CategoriesUnder(side) ==
    LET recs == ScanComponents(side, project, userConfig.entryPaths)
    IN [i \in 1..Len(recs) |-> recs[i].type]

\* C19 -- the records of a finished scan carry the categories given by the
\* override set as it was when the scan started, whatever edits of the
\* override file were made while it ran.
C19_SnapshotPerPass ==
    spc = "done" => [i \in 1..Len(docs) |-> docs[i].type] = CategoriesUnder(snapshot)


\* C24 -- a symbol whose name ends in 'page' and contains 'component' or
\* 'widget', with no override, matching no file-convention or content rule
\* and referenced in no route file, is classified component, also when its
\* file has a default export.
C24_DisqualifiedNameIsComponent ==
    (/\ cpc = "done" /\ NoMatchingOverride
     /\ EndsWith(ToLowerCase(call.sym.name), <<"p","a","g","e">>)
     /\ \/ Includes(ToLowerCase(call.sym.name), <<"c","o","m","p","o","n","e","n","t">>)
        \/ Includes(ToLowerCase(call.sym.name), <<"w","i","d","g","e","t">>)
     /\ ~CallReferencedInRoutes
     /\ CallRule \in {"isPageName", "pageSuffix", "default"})
        => result = "component"


\* C21 -- an event that arrives while a rebuild is in progress cancels no
\* rebuild, and every event is eventually followed by the start of a rebuild
\* (events stop arriving after MaxEvents of them).
C21_NoLostEvent ==
    /\ [][events' > events => running' = running /\ started' = started]_vars
    /\ (started < bursts) ~> (started = bursts)

\* the second event arrived while the first rebuild was running; that rebuild
\* still runs and the second one has started
C21_Witness == events = 2 /\ started = 2 /\ running = 2 /\ timers = <<>>

\* C28 -- every promise returned by debouncedRebuild is eventually resolved,
\* so that in the end no event handler is left awaiting.
C28_EveryPromiseResolves == <>[](awaiting = 0)


\* C23 -- when the first parser strategy returns without error and without a
\* record for a typed script file, the later strategies are still tried and
\* their records are in the scan output.
C23_ParserCascade ==
    (spc = "done" /\ LoadOverrides(sidecar).value = "config") =>
        \A i \in 1..Len(files) :
            LET f == FileAt(project, files[i])
            IN (/\ IsTs(files[i]) /\ f.readable
                /\ f.docgen[1].ok /\ f.docgen[1].names = <<>>
                /\ f.docgen[2].ok)
                   => \A k \in 1..Len(f.docgen[2].names) :
                          RecordOf(f.docgen[2].names[k], files[i])

\* C26 -- when an override gives the `use*` symbol of src/hooks/useAuth.ts a
\* category other than hook, the finished scan has no hook record of that
\* name for that file.
C26_OverrideFinalForHooks ==
    LET ov == LoadOverrides(sidecar).overrides
        idx == FindOverride(ov, P_useAuth, N_useAuth)
    IN (spc = "done" /\ idx > 0 /\ ov[idx].overrideType # "hook") =>
           ~HasRecord(Relative(ProjRoot, P_useAuth), N_useAuth, "hook")


\* C22 (as stated) -- the hook registry and usage scans start only after every
\* file has been parsed and classified: while files are still to be parsed,
\* the registry has not been built.
C22_RegistryAfterFiles ==
    (spc = "files" /\ cursor <= Len(files)) => allHookNames = <<>>

\* C22 (amended) -- in one build run the hook registry and usage scans run
\* right after the enumeration and before the first file is parsed; parsing,
\* classification and usage-example extraction then happen file by file, so
\* no record exists before the scans have finished; the hook second pass
\* runs only after every file has been handled.
C22_RegistryBeforeFiles ==
    /\ spc = "registry" => docs = <<>> /\ cursor = 1
    /\ spc \in {"files", "done", "analyzed"} => allHookNames # <<>>
    /\ spc \in {"done", "analyzed"} => cursor > Len(files)

\* in the middle of the first pass: the registry is built, a record already
\* carries its usage examples, files are still to be parsed
C22_Witness ==
    /\ spc = "files" /\ cursor <= Len(files)
    /\ allHookNames # <<>>
    /\ \E i \in 1..Len(docs) : docs[i].realUsageExamples # <<>>

-----------------------------------------------------------------------------
(* Two concurrent updateComponentOverride calls.  Each call awaits         *)
(* loadOverrides, edits the loaded config in memory, then awaits           *)
(* saveOverrides; the two awaits of the two calls interleave freely.       *)

\* a call in flight: `read` is the sidecar as its loadOverrides read it
RaceCall(fp, cn, new) ==
    [filePath |-> fp, componentName |-> cn, newType |-> new, pc |-> "start", read |-> FileMissing]

RaceStarts ==
    {<<RaceCall(k1.filePath, k1.name, t1), RaceCall(k2.filePath, k2.name, t2)>> :
        k1 \in StoreKeys, k2 \in StoreKeys, t1 \in EditTypes, t2 \in EditTypes}

InitRace ==
    /\ sidecar \in {FileMissing, FileConfig(<<>>),
                    FileConfig(<<Override(P_Foo, N_Foo, "component", "page")>>)}
    /\ inflight \in {s \in RaceStarts :
           s[1].filePath # s[2].filePath \/ s[1].componentName # s[2].componentName}
    /\ ClassifyIdle
    /\ UsageIdle
    /\ ScanIdle
    /\ WatchIdle
    /\ WriteIdle
    /\ StoreIdle
    /\ MdxIdle
    /\ BuildIdle

\* const config = await loadOverrides(projectRoot)
RaceLoad(i) ==
    /\ inflight[i].pc = "start"
    /\ inflight' = [inflight EXCEPT ![i].pc = "loaded", ![i].read = sidecar]
    /\ UNCHANGED <<sidecar, classVars, usageVars, scanVars, watchVars, writeVars, storeVars, mdxVars, buildVars>>

\* the in-memory edit of the loaded config, then await saveOverrides(projectRoot, config)
RaceSave(i) ==
    /\ inflight[i].pc = "loaded"
    /\ sidecar' = UpdateOverrideFile(inflight[i].read, inflight[i].filePath,
                                     inflight[i].componentName, "component", inflight[i].newType)
    /\ inflight' = [inflight EXCEPT ![i].pc = "saved"]
    /\ UNCHANGED <<classVars, usageVars, scanVars, watchVars, writeVars, storeVars, mdxVars, buildVars>>

NextRace ==
    \/ \E i \in 1..2 : RaceLoad(i)
    \/ \E i \in 1..2 : RaceSave(i)

SpecRace == InitRace /\ [][NextRace]_vars

\* C27 -- when two updateComponentOverride calls for different keys have both
\* returned, however their loads and saves interleaved, the store holds an
\* entry for each of the two keys, with the type that key's call wrote.
C27_NoLostUpdate ==
    (Len(inflight) = 2 /\ \A i \in 1..2 : inflight[i].pc = "saved") =>
        \A i \in 1..2 :
            LET ov == LoadOverrides(sidecar).overrides
                idx == FindIndex(ov, inflight[i].filePath, inflight[i].componentName)
            IN idx > 0 /\ ov[idx].overrideType = inflight[i].newType

-----------------------------------------------------------------------------
(* The description of a markup document (extractMdxDescription).  The      *)
(* content is the sequence of its lines, as content.split('\n') gives.     *)

MaxLines == 4

L_Fence == <<"-","-","-">>
L_Title == <<"t","i","t","l","e",":"," ","I","n","t","r","o">>
L_Description == <<"d","e","s","c","r","i","p","t","i","o","n",":"," ","D","o","c","s">>
L_QuotedDescription == <<"d","e","s","c","r","i","p","t","i","o","n",":"," ","\"","D","o","c","s","\"">>
L_Heading == <<"#"," ","I","n","t","r","o">>
L_Body == <<" ","B","o","d","y"," ","t","e","x","t">>
L_Empty == <<>>

MdxLines == {L_Fence, L_Title, L_Description, L_QuotedDescription, L_Heading, L_Body, L_Empty}

MdxContents == UNION {[1..n -> MdxLines] : n \in 0..MaxLines}

\* String.prototype.trimStart / trimEnd / trim, on spaces
RECURSIVE TrimStart(_)
TrimStart(s) == IF s # <<>> /\ s[1] = " " THEN TrimStart(Tail(s)) ELSE s

RECURSIVE TrimEnd(_)
TrimEnd(s) ==
    IF s # <<>> /\ s[Len(s)] = " " THEN TrimEnd(SubSeq(s, 1, Len(s) - 1)) ELSE s

Trim(s) == TrimEnd(TrimStart(s))

\* /^---\n([\s\S]*?)\n---/: the content starts with the line `---`, and the
\* lazy group ends before the first later line break that is followed by
\* `---`.  The line break after the opening line belongs to `^---\n`, so the
\* closing line is the third line at the earliest.  0 when there is no match.
FrontmatterClose(lines) ==
    IF Len(lines) >= 3 /\ lines[1] = L_Fence
          /\ \E j \in 3..Len(lines) : StartsWith(lines[j], L_Fence)
    THEN CHOOSE j \in 3..Len(lines) :
             /\ StartsWith(lines[j], L_Fence)
             /\ \A k \in 3..(j - 1) : ~StartsWith(lines[k], L_Fence)
    ELSE 0

\* frontmatterMatch[1], as lines
YamlContent(lines) == SubSeq(lines, 2, FrontmatterClose(lines) - 1)

K_Description == <<"d","e","s","c","r","i","p","t","i","o","n",":">>

\* leftmost position of `description:` in a line, 0 when absent
DescriptionAt(line) ==
    IF Includes(line, K_Description)
    THEN CHOOSE i \in 1..Len(line) :
             /\ StartsWith(SubSeq(line, i, Len(line)), K_Description)
             /\ \A k \in 1..(i - 1) : ~StartsWith(SubSeq(line, k, Len(line)), K_Description)
    ELSE 0

Quotes == {"\"", "'"}

\* ["']?(.*?)["']?$ on the rest of a line: one leading and one trailing quote dropped
Unquote(s) ==
    LET open == IF s # <<>> /\ s[1] \in Quotes THEN Tail(s) ELSE s
    IN IF open # <<>> /\ open[Len(open)] \in Quotes
       THEN SubSeq(open, 1, Len(open) - 1)
       ELSE open

\* \s*["']?(.*?)["']?$ with the m flag: the greedy \s* runs over spaces and
\* line breaks, the capture is taken from the line it stops on
RECURSIVE DescriptionCapture(_)
DescriptionCapture(rest) ==
    IF rest = <<>> THEN <<>>
    ELSE IF TrimStart(rest[1]) = <<>> THEN DescriptionCapture(Tail(rest))
    ELSE Unquote(TrimStart(rest[1]))

\* yamlContent.match(/description:\s*["']?(.*?)["']?$/m): [matched, descMatch[1]]
DescMatch(yaml) ==
    IF \E i \in 1..Len(yaml) : DescriptionAt(yaml[i]) > 0
    THEN LET i == CHOOSE i \in 1..Len(yaml) :
                      /\ DescriptionAt(yaml[i]) > 0
                      /\ \A k \in 1..(i - 1) : DescriptionAt(yaml[k]) = 0
             from == DescriptionAt(yaml[i]) + Len(K_Description)
         IN <<TRUE, DescriptionCapture(<<SubSeq(yaml[i], from, Len(yaml[i]))>>
                                       \o SubSeq(yaml, i + 1, Len(yaml)))>>
    ELSE <<FALSE, <<>>>>

\* the fallback loop's test on one line
IsParagraphLine(line) ==
    Trim(line) # <<>> /\ ~StartsWith(line, <<"#">>) /\ ~StartsWith(line, L_Fence)

\* the fallback loop over content.split('\n')
FirstParagraph(lines) ==
    IF \E i \in 1..Len(lines) : IsParagraphLine(lines[i])
    THEN Trim(lines[CHOOSE i \in 1..Len(lines) :
                        /\ IsParagraphLine(lines[i])
                        /\ \A k \in 1..(i - 1) : ~IsParagraphLine(lines[k])])
    ELSE <<>>

ExtractMdxDescription(lines) ==
    IF FrontmatterClose(lines) > 0 /\ DescMatch(YamlContent(lines))[1]
    THEN DescMatch(YamlContent(lines))[2]
    ELSE FirstParagraph(lines)

InitMdx ==
    /\ sidecar = FileMissing
    /\ mdxContent \in MdxContents
    /\ mdxDescription = <<>>
    /\ mpc = "ready"
    /\ ClassifyIdle
    /\ UsageIdle
    /\ ScanIdle
    /\ WatchIdle
    /\ WriteIdle
    /\ StoreIdle
    /\ RaceIdle
    /\ BuildIdle

\* description: extractMdxDescription(content) of the record pushed for the file
DescribeMdx ==
    /\ mpc = "ready"
    /\ mdxDescription' = ExtractMdxDescription(mdxContent)
    /\ mpc' = "done"
    /\ UNCHANGED <<sidecar, mdxContent, classVars, usageVars, scanVars, watchVars, writeVars, storeVars, raceVars, buildVars>>

NextMdx == DescribeMdx

SpecMdx == InitMdx /\ [][NextMdx]_vars

\* the front-matter block of a document: it opens with a `---` line and runs
\* to the next `---` line; 0 when the document has none
BlockClose(lines) ==
    IF Len(lines) >= 2 /\ lines[1] = L_Fence /\ \E j \in 2..Len(lines) : lines[j] = L_Fence
    THEN CHOOSE j \in 2..Len(lines) :
             lines[j] = L_Fence /\ \A k \in 2..(j - 1) : lines[k] # L_Fence
    ELSE 0

\* the lines of the block that set the `description` field
DescriptionFields(lines) ==
    {i \in 2..(BlockClose(lines) - 1) : StartsWith(lines[i], K_Description)}

\* C25 -- the description of a markup document is the value of the
\* front-matter `description` field when the front-matter block has one;
\* otherwise it is the first non-empty line after the block that is not a
\* heading and not a rule (empty when there is none), never a line from
\* inside the block.
C25_MarkupDescription ==
    mpc = "done" =>
        LET close == BlockClose(mdxContent)
            fields == DescriptionFields(mdxContent)
            body == SubSeq(mdxContent, close + 1, Len(mdxContent))
        IN IF fields # {}
           THEN LET i == CHOOSE i \in fields : \A k \in fields : i <= k
                IN mdxDescription =
                       Unquote(Trim(SubSeq(mdxContent[i], Len(K_Description) + 1,
                                           Len(mdxContent[i]))))
           ELSE mdxDescription = FirstParagraph(body)

-----------------------------------------------------------------------------
(* Watch mode's buildDocumentation, run again and again on one content     *)
(* directory.  The scans return records whose documents have distinct      *)
(* paths, so that two builds differ only by the symbols that were added,   *)
(* deleted, renamed or moved to another category in between.               *)

RebuildRecords ==
    [displayName : {N_Button, N_Foo}, type : {"component", "hook"},
     filePath : {Relative(ProjRoot, P_Button)}]

RebuildScans ==
    {l \in UNION {[1..n -> RebuildRecords] : n \in 0..MaxRecords} :
        \A i, j \in 1..Len(l) : i # j => l[i].displayName # l[j].displayName}

InitRebuild ==
    /\ comps \in RebuildScans
    /\ outDir = {}
    /\ wcursor = 0
    /\ wpc = "ready"
    /\ sidecar = FileMissing
    /\ ClassifyIdle
    /\ UsageIdle
    /\ ScanIdle
    /\ WatchIdle
    /\ StoreIdle
    /\ RestIdle

\* buildDocumentation up to writeComponentPages: the scan, then mkdir of the
\* content directory with recursive: true, which leaves an existing directory
\* and its files as they are
BuildDocumentation ==
    /\ wpc = "done"
    /\ comps' \in RebuildScans
    /\ wcursor' = 0
    /\ wpc' = "ready"
    /\ UNCHANGED <<sidecar, classVars, usageVars, scanVars, watchVars, storeVars, raceVars, mdxVars, buildVars, outDir>>

NextRebuild == BuildDocumentation \/ GroupRecords \/ WritePage

SpecRebuild == InitRebuild /\ [][NextRebuild]_vars

\* C29 -- after every completed rebuild the documents in the content
\* directory are exactly the documents of the records of that rebuild.
C29_NoStaleDocuments ==
    wpc = "done" => {f.path : f \in outDir} = {PagePath(comps[i]) : i \in 1..Len(comps)}

-----------------------------------------------------------------------------
(* The build command, run again and again on one output directory that     *)
(* `init` has scaffolded once.  A search.json file is <<>> when it does    *)
(* not exist and <<components>> when it holds that list.                   *)

BuildScans == RebuildScans

InitBuild ==
    /\ siteTemplate = TRUE
    /\ tempSearch = <<>>
    /\ contentSearch = <<>>
    /\ scanned = <<>>
    /\ bpc = "ready"
    /\ sidecar = FileMissing
    /\ ClassifyIdle
    /\ UsageIdle
    /\ ScanIdle
    /\ WatchIdle
    /\ WriteIdle
    /\ StoreIdle
    /\ RaceIdle
    /\ MdxIdle

\* build, steps 1 to 3: the scan and the usage analysis, then temp-content is
\* removed, made again and filled with the pages and search.json
BuildGenerate ==
    /\ bpc \in {"ready", "completed", "failed"}
    /\ scanned' \in BuildScans
    /\ tempSearch' = <<scanned'>>
    /\ bpc' = "generated"
    /\ UNCHANGED <<sidecar, classVars, usageVars, scanVars, watchVars, writeVars, storeVars, raceVars, mdxVars, siteTemplate, contentSearch>>

\* the siteExists branch: content is removed, made again and filled from
\* temp-content, the site is built in outDir, then temp-content and the site
\* template directory are removed
BuildSite ==
    /\ bpc = "generated"
    /\ siteTemplate
    /\ contentSearch' = tempSearch
    /\ tempSearch' = <<>>
    /\ siteTemplate' = FALSE
    /\ bpc' = "completed"
    /\ UNCHANGED <<sidecar, classVars, usageVars, scanVars, watchVars, writeVars, storeVars, raceVars, mdxVars, scanned>>

\* the siteExists branch when buildNextSiteUnified rejects (npm install or the
\* Next.js build exits with a non-zero code): build rejects after the copy
BuildSiteRejected ==
    /\ bpc = "generated"
    /\ siteTemplate
    /\ contentSearch' = tempSearch
    /\ bpc' = "failed"
    /\ UNCHANGED <<sidecar, classVars, usageVars, scanVars, watchVars, writeVars, storeVars, raceVars, mdxVars, scanned, tempSearch, siteTemplate>>

\* the else branch: "Site template not found. Run 'smartdocs init' first."
BuildWithoutSite ==
    /\ bpc = "generated"
    /\ ~siteTemplate
    /\ bpc' = "completed"
    /\ UNCHANGED <<sidecar, classVars, usageVars, scanVars, watchVars, writeVars, storeVars, raceVars, mdxVars, scanned, tempSearch, contentSearch, siteTemplate>>

NextBuild == BuildGenerate \/ BuildSite \/ BuildSiteRejected \/ BuildWithoutSite

SpecBuild == InitBuild /\ [][NextBuild]_vars

\* C30 -- when a build invocation has completed, <outDir>/content/search.json
\* holds the result of that invocation's scan; this includes the builds that
\* follow an earlier successful build with no `init` in between.
C30_BuildRepeatable ==
    bpc = "completed" => contentSearch = <<scanned>>

=============================================================================
